---- MODULE Spec2Model ----
(***************************************************************************)
(* The consensus-layer mock (CLMocker) of the hive engine simulator: the   *)
(* client registry, the TTD detector (checkTTD), the PoS block production  *)
(* cycle (minePOSBlock) with its six Set-Reset-Lock mutexes, and the test  *)
(* cases that wait on those mutexes and register or unregister clients.    *)
(***************************************************************************)
EXTENDS Integers, Sequences, FiniteSets, TLC

\* ---------------------------------------------------------------- bounds
NumClients == 2
NumActors == 2
MaxRegistry == 2
MaxCycles == 2
MaxInvocations == 2
NumRandoms == 2
NumPeers == 2
NumFees == 2

Clients == 1..NumClients
Actors == 1..NumActors
Invs == 1..MaxInvocations
Randoms == 1..NumRandoms
\* A cluster of clients that are all registered before the first checkTTD:
\* one distinguished client and its peers.
Cluster == 1..(NumPeers + 1)
Fees == 1..NumFees

\* ------------------------------------------------- sync.Mutex and gates
\* A sync.Mutex is either unlocked or locked; the model also remembers who
\* locked it: Free, Orch (the CL mocker), or a test case a \in Actors.
Free == 0
Orch == -1
\* EngineClientsLock is held by one invocation of minePOSBlock or by a test
\* case inside AddEngineClient / RemoveEngineClient.
InvHolder(i) == 0 - i

PayloadBuildMutex == 1
NewGetPayloadMutex == 2
NewExecutePayloadMutex == 3
NewHeadBlockForkchoiceMutex == 4
NewSafeBlockForkchoiceMutex == 5
NewFinalizedBlockForkchoiceMutex == 6
Gates == PayloadBuildMutex..NewFinalizedBlockForkchoiceMutex

\* ------------------------------------------------------ blocks and hashes
\* A block hash identifies the block: its number and who produced it
\* (0: a PoW block, c: the payload built by client c).
HashBase == NumClients + NumPeers + 1
Hash(n, v) == n * HashBase + v
NumOf(h) == h \div HashBase
BuilderOf(h) == h % HashBase
ZeroHash == 0

\* PoW chain: block 1 is below the terminal total difficulty, block 2 is the
\* terminal block, block 3 is a PoW block mined on top of it.
terminalTotalDifficulty == 2
MaxPoWNumber == terminalTotalDifficulty + 1
TotalDifficulty(h) == IF BuilderOf(h) = 0 THEN NumOf(h) ELSE terminalTotalDifficulty
GenesisHash == Hash(1, 0)
TerminalHash == Hash(terminalTotalDifficulty, 0)

NilNumber == -1
ZeroAddress == 0
NilClient == 0
NilHeader == [Number |-> NilNumber, Hash |-> ZeroHash]
HeaderOf(h) == [Number |-> NumOf(h), Hash |-> h]
NoPayload == [Number |-> 0, BlockHash |-> ZeroHash, ParentHash |-> ZeroHash, Random |-> 0]
EmptyMap == [n \in {} |-> 0]

VARIABLES
  EngineClients,            \* registry: sequence of client handles
  EngineClientsCap,         \* cap(cl.EngineClients): the length of the array behind the registry
  EngineClientsLock,        \* holder of the registry lock
  NextBlockProducer,
  BlockProductionMustStop,
  RandomHistory,
  ExecutedPayloadHistory,
  LatestFinalizedNumber,
  LatestFinalizedHeader,
  LatestPayloadBuilt,
  LatestExecutedPayload,
  LatestForkchoice,
  FirstPoSBlockNumber,
  TTDReached,
  mutex,                    \* the six Set-Reset-Lock mutexes: Gates -> holder
  checkTTDTimer,            \* pending time.AfterFunc(.., cl.checkTTD) callbacks
  minePOSBlockTimer,        \* pending time.AfterFunc(.., cl.minePOSBlock) callbacks
  ttd,                      \* the running checkTTD callback: position and locals
  pc,                       \* position of each minePOSBlock invocation
  lastBlockNumber,          \* local of each minePOSBlock invocation
  nextRandom,               \* local of each minePOSBlock invocation
  waiter,                   \* test cases: waiting on / holding a gate
  regCall,                  \* the pending AddEngineClient / RemoveEngineClient call
  chainHead,                \* execution clients: hash of the head block
  clientValid,              \* execution clients: payload validated, not yet head
  crashed,                  \* the Go runtime has aborted the process
  window,                   \* history: the test cases blocked on the open gate since it was opened
  broadcastLog,             \* history: hashes sent by broadcastExecutePayload
  terminalBlock,            \* history: hash of the head header checkTTD fetched
  responses,                \* the outcome list the last broadcast returned, until the next step
  headerErrors,             \* history: positions whose HeaderByNumber call failed in the last scan
  executeOutcomes,          \* history: the outcomes of the executePayload broadcast of the cycle
  scanIndex,                \* the position the accepted-header scan is at
  NextFeeRecipient,
  feeCall,                  \* test cases: the setNextFeeRecipient call each is inside
  payloadAttributes,        \* local of minePOSBlock: the attributes of the build request
  assigned,                 \* history: fees written for a target since PayloadBuildMutex was unlocked
  returned,                 \* history: what the calls that reached the return of a number got, since PayloadBuildMutex was unlocked
  opened                    \* history: the gates the running cycle has unlocked, in order

vars == <<EngineClients, EngineClientsCap, EngineClientsLock, NextBlockProducer, BlockProductionMustStop,
          RandomHistory, ExecutedPayloadHistory, LatestFinalizedNumber,
          LatestFinalizedHeader, LatestPayloadBuilt, LatestExecutedPayload,
          LatestForkchoice, FirstPoSBlockNumber, TTDReached, mutex, checkTTDTimer,
          minePOSBlockTimer, ttd, pc, lastBlockNumber, nextRandom, waiter, regCall,
          chainHead, clientValid, crashed, window, broadcastLog, terminalBlock,
          responses, headerErrors, executeOutcomes, scanIndex, NextFeeRecipient, feeCall, payloadAttributes,
          assigned,
          returned, opened>>

mockerVars == <<NextBlockProducer, RandomHistory, ExecutedPayloadHistory,
                LatestFinalizedNumber, LatestFinalizedHeader, LatestPayloadBuilt,
                LatestExecutedPayload, LatestForkchoice, FirstPoSBlockNumber>>
actorVars == <<waiter, regCall>>
clientVars == <<chainHead, clientValid>>
timerVars == <<checkTTDTimer, minePOSBlockTimer>>
localVars == <<lastBlockNumber, nextRandom, opened>>
outcomeVars == <<responses, headerErrors, executeOutcomes, scanIndex>>
feeVars == <<NextFeeRecipient, feeCall, payloadAttributes, assigned, returned>>

NoWindow == {}
NoWaiter == [st |-> "none", gate |-> 0]
NoCall == [op |-> "none", ec |-> NilClient, by |-> 0]
NoFeeCall == [active |-> FALSE, fee |-> ZeroAddress, ec |-> NilClient, sending |-> FALSE]
NoAttributes == [Random |-> 0, SuggestedFeeRecipient |-> ZeroAddress]
\* checkTTD's position and locals: the index drawn, the client sampled, the
\* length of the outcome list (n), and the range loop of the broadcast: the
\* iteration (k), the element it read (cur), the elements of the array its
\* copy of the slice header points to (arr), and whether that array is still
\* the one behind cl.EngineClients (shared).  Two fields record history: the
\* clients that have been registered since the broadcast was called (was)
\* and the clients its loop has called (sent).
TTDIdle == [pc |-> "idle", idx |-> 0, ec |-> NilClient, n |-> 0, k |-> 0,
            cur |-> NilClient, arr |-> <<>>, shared |-> FALSE,
            was |-> {}, sent |-> {}]

\* append(s, e) on a slice of length n and capacity c: the element is written
\* into the array when there is room, else a new array is allocated, of
\* capacity 1 for an empty one and of twice the capacity otherwise.
CapAfterAppend(c, n) == IF n < c THEN c ELSE IF c = 0 THEN 1 ELSE 2 * c
\* The capacity of a registry built by n calls of AddEngineClient on
\* make([]*EngineClient, 0).
RECURSIVE CapAfterAppends(_)
CapAfterAppends(n) == IF n = 0 THEN 0 ELSE CapAfterAppend(CapAfterAppends(n - 1), n - 1)

\* NewCLMocker: empty registry, nothing recorded, the six mutexes locked,
\* the checkTTD timer started.
InitWith(reg, heads) ==
  /\ EngineClients = reg
  /\ EngineClientsCap = CapAfterAppends(Len(reg))
  /\ EngineClientsLock = Free
  /\ NextBlockProducer = NilClient
  /\ BlockProductionMustStop = FALSE
  /\ RandomHistory = EmptyMap
  /\ ExecutedPayloadHistory = EmptyMap
  /\ LatestFinalizedNumber = NilNumber
  /\ LatestFinalizedHeader = NilHeader
  /\ LatestPayloadBuilt = NoPayload
  /\ LatestExecutedPayload = NoPayload
  /\ LatestForkchoice = [HeadBlockHash |-> ZeroHash, SafeBlockHash |-> ZeroHash,
                         FinalizedBlockHash |-> ZeroHash]
  /\ FirstPoSBlockNumber = NilNumber
  /\ TTDReached = FALSE
  /\ mutex = [g \in Gates |-> Orch]
  /\ checkTTDTimer = 1
  /\ minePOSBlockTimer = 0
  /\ ttd = TTDIdle
  /\ pc = [i \in Invs |-> "idle"]
  /\ lastBlockNumber = [i \in Invs |-> 0]
  /\ nextRandom = [i \in Invs |-> 0]
  /\ waiter = [a \in Actors |-> NoWaiter]
  /\ regCall = NoCall
  /\ chainHead = heads
  /\ clientValid = [c \in DOMAIN heads |-> ZeroHash]
  /\ crashed = FALSE
  /\ window = NoWindow
  /\ broadcastLog = {}
  /\ terminalBlock = ZeroHash
  /\ responses = <<>>
  /\ headerErrors = {}
  /\ executeOutcomes = <<>>
  /\ scanIndex = 0
  /\ NextFeeRecipient = ZeroAddress
  /\ feeCall = [a \in Actors |-> NoFeeCall]
  /\ payloadAttributes = NoAttributes
  /\ assigned = {}
  /\ returned = {}
  /\ opened = <<>>

\* The clients start on the PoW chain below the terminal total difficulty.
Init == InitWith(<<>>, [c \in Clients |-> GenesisHash])

\* The clients have reached the terminal block before the mocker is created.
InitSync == InitWith(<<>>, [c \in Clients |-> TerminalHash])

\* The registries that hold every client of the cluster once, in any order.
ClusterRegistries ==
  {reg \in [Cluster -> Cluster] : \A c \in Cluster : \E k \in Cluster : reg[k] = c}

\* The cluster is registered before the first checkTTD; one client has
\* reached the terminal block, its peers are below it.
InitPoll ==
  \E reg \in ClusterRegistries, q \in Cluster :
     InitWith(reg, [c \in Cluster |-> IF c = q THEN TerminalHash ELSE GenesisHash])

\* ------------------------------------------------------------ the registry
\* AddEngineClient's body: append.
AppendClient(reg, c) == Append(reg, c)

\* RemoveEngineClient's search loop: first index holding c, 0 when absent.
IndexOf(reg, c) ==
  IF \E j \in 1..Len(reg) : reg[j] = c
  THEN CHOOSE j \in 1..Len(reg) : reg[j] = c /\ \A k \in 1..(j - 1) : reg[k] # c
  ELSE 0

\* RemoveEngineClient's body: overwrite the found slot with the last element
\* and truncate by one.
RemoveClient(reg, c) ==
  LET i == IndexOf(reg, c) IN
  IF i >= 1 THEN SubSeq([reg EXCEPT ![i] = reg[Len(reg)]], 1, Len(reg) - 1)
  ELSE reg

Running == ~crashed

\* sync.Mutex.Lock returns only when the mutex is unlocked.
CanLock(holder) == holder = Free

\* ------------------------------------------------------------- test cases
\* A test case calls Lock on one of the six mutexes and blocks.  Test cases
\* are interchangeable: the lowest-numbered one that is not busy goes first.
WaitCheckpoint(a, g) ==
  /\ Running
  /\ waiter[a].st = "none"
  /\ \A b \in Actors : b < a => waiter[b].st # "none"
  /\ waiter' = [waiter EXCEPT ![a] = [st |-> "waiting", gate |-> g]]
  /\ UNCHANGED <<EngineClients, EngineClientsCap, EngineClientsLock, BlockProductionMustStop, mockerVars,
                 TTDReached, mutex, timerVars, ttd, pc, localVars, regCall, clientVars,
                 crashed, window, broadcastLog, terminalBlock, outcomeVars, feeVars>>

\* Its Lock call returns: the mutex was unlocked and is now locked by it.
AcquireCheckpoint(a) ==
  LET g == waiter[a].gate IN
  /\ Running
  /\ waiter[a].st = "waiting"
  /\ mutex[g] = Free
  /\ mutex' = [mutex EXCEPT ![g] = a]
  /\ waiter' = [waiter EXCEPT ![a].st = "holding"]
  /\ window' = window \ {a}
  /\ UNCHANGED <<EngineClients, EngineClientsCap, EngineClientsLock, BlockProductionMustStop, mockerVars,
                 TTDReached, timerVars, ttd, pc, localVars, regCall, clientVars,
                 crashed, broadcastLog, terminalBlock, outcomeVars, feeVars>>

\* The test case is done with its checkpoint and calls Unlock.
ReleaseCheckpoint(a) ==
  LET g == waiter[a].gate IN
  /\ Running
  /\ waiter[a].st = "holding"
  /\ regCall.by # a
  /\ ~feeCall[a].active
  /\ IF mutex[g] = Free
     THEN crashed' = TRUE /\ UNCHANGED mutex
     ELSE mutex' = [mutex EXCEPT ![g] = Free] /\ UNCHANGED crashed
  /\ waiter' = [waiter EXCEPT ![a] = NoWaiter]
  /\ UNCHANGED <<EngineClients, EngineClientsCap, EngineClientsLock, BlockProductionMustStop, mockerVars,
                 TTDReached, timerVars, ttd, pc, localVars, regCall, clientVars,
                 window, broadcastLog, terminalBlock, outcomeVars, feeVars>>

\* The callers of the registry: a test case that holds a checkpoint, or
\* test code that holds none (Driver).
Driver == 0
Callers == {Driver} \cup {a \in Actors : waiter[a].st = "holding" /\ ~feeCall[a].active}

\* AddEngineClient / RemoveEngineClient is called and blocks on
\* EngineClientsLock; the caller does nothing else until it returns.
CallAddEngineClient(by, c) ==
  /\ Running
  /\ by \in Callers
  /\ regCall.op = "none"
  /\ Len(EngineClients) < MaxRegistry
  /\ regCall' = [op |-> "add", ec |-> c, by |-> by]
  /\ UNCHANGED <<EngineClients, EngineClientsCap, EngineClientsLock, BlockProductionMustStop, mockerVars,
                 TTDReached, mutex, timerVars, ttd, pc, localVars, waiter, clientVars,
                 crashed, window, broadcastLog, terminalBlock, outcomeVars, feeVars>>

CallRemoveEngineClient(by, c) ==
  /\ Running
  /\ by \in Callers
  /\ regCall.op = "none"
  /\ regCall' = [op |-> "remove", ec |-> c, by |-> by]
  /\ UNCHANGED <<EngineClients, EngineClientsCap, EngineClientsLock, BlockProductionMustStop, mockerVars,
                 TTDReached, mutex, timerVars, ttd, pc, localVars, waiter, clientVars,
                 crashed, window, broadcastLog, terminalBlock, outcomeVars, feeVars>>

\* A write of slot k of the array behind cl.EngineClients, seen by the range
\* loop of checkTTD (t) while its copy of the slice header points to that array.
ArrayWrite(t, k, e) ==
  IF t.shared /\ k <= Len(t.arr) THEN [t EXCEPT !.arr[k] = e] ELSE t
\* append seen by the range loop of checkTTD: a write of the slot after the
\* last one, or a new array, which leaves the loop with the old one.
ArrayAppend(t, reg, c, e) ==
  IF Len(reg) < c THEN ArrayWrite(t, Len(reg) + 1, e) ELSE [t EXCEPT !.shared = FALSE]
\* l.119 seen by the range loop of checkTTD: slot i gets the last element;
\* the truncation leaves the array as it is.  The client is no longer one
\* that has been registered since the broadcast was called.
ArrayRemove(t, reg, e) ==
  LET i == IndexOf(reg, e) IN
  IF i >= 1 THEN [ArrayWrite(t, i, reg[Len(reg)]) EXCEPT !.was = @ \ {e}] ELSE t

\* AddEngineClient: Lock, append, deferred Unlock.
AddEngineClient ==
  /\ Running
  /\ regCall.op = "add"
  /\ CanLock(EngineClientsLock)
  /\ EngineClients' = AppendClient(EngineClients, regCall.ec)
  /\ EngineClientsCap' = CapAfterAppend(EngineClientsCap, Len(EngineClients))
  /\ ttd' = ArrayAppend(ttd, EngineClients, EngineClientsCap, regCall.ec)
  /\ regCall' = NoCall
  /\ UNCHANGED <<EngineClientsLock, BlockProductionMustStop, mockerVars,
                 TTDReached, mutex, timerVars, pc, localVars, waiter, clientVars,
                 crashed, window, broadcastLog, terminalBlock, outcomeVars, feeVars>>

\* RemoveEngineClient without the Lock.
RemoveEngineClientNoLock ==
  /\ Running
  /\ regCall.op = "remove"
  /\ EngineClients' = RemoveClient(EngineClients, regCall.ec)
  /\ ttd' = ArrayRemove(ttd, EngineClients, regCall.ec)
  /\ regCall' = NoCall
  /\ UNCHANGED <<EngineClientsCap, EngineClientsLock, BlockProductionMustStop, mockerVars,
                 TTDReached, mutex, timerVars, pc, localVars, waiter, clientVars,
                 crashed, window, broadcastLog, terminalBlock, outcomeVars, feeVars>>

\* RemoveEngineClient: Lock, search, swap with last and truncate, deferred Unlock.
RemoveEngineClient ==
  /\ Running
  /\ regCall.op = "remove"
  /\ CanLock(EngineClientsLock)
  /\ EngineClients' = RemoveClient(EngineClients, regCall.ec)
  /\ ttd' = ArrayRemove(ttd, EngineClients, regCall.ec)
  /\ regCall' = NoCall
  /\ UNCHANGED <<EngineClientsCap, EngineClientsLock, BlockProductionMustStop, mockerVars,
                 TTDReached, mutex, timerVars, pc, localVars, waiter, clientVars,
                 crashed, window, broadcastLog, terminalBlock, outcomeVars, feeVars>>

\* A stop that also releases the six mutexes.
stopPoSBlockProductionUnlocking ==
  /\ Running
  /\ ~BlockProductionMustStop
  /\ BlockProductionMustStop' = TRUE
  /\ mutex' = [g \in Gates |-> Free]
  /\ UNCHANGED <<EngineClients, EngineClientsCap, EngineClientsLock, mockerVars,
                 TTDReached, timerVars, ttd, pc, localVars, actorVars, clientVars,
                 crashed, window, broadcastLog, terminalBlock, outcomeVars, feeVars>>

\* stopPoSBlockProduction: raise the flag, nothing else.
stopPoSBlockProduction ==
  /\ Running
  /\ ~BlockProductionMustStop
  /\ BlockProductionMustStop' = TRUE
  /\ UNCHANGED <<EngineClients, EngineClientsCap, EngineClientsLock, mockerVars,
                 TTDReached, mutex, timerVars, ttd, pc, localVars, actorVars, clientVars,
                 crashed, window, broadcastLog, terminalBlock, outcomeVars, feeVars>>

\* A test case calls setNextFeeRecipient(feeRecipient, ec, tx) and blocks in
\* its PayloadBuildMutex.Lock(). The transaction is read only after the write
\* of NextFeeRecipient, so it is drawn there.
CallSetNextFeeRecipient(a, fee, ec) ==
  /\ Running
  /\ waiter[a].st = "none"
  /\ \A b \in Actors : b < a => waiter[b].st # "none"
  /\ waiter' = [waiter EXCEPT ![a] = [st |-> "waiting", gate |-> PayloadBuildMutex]]
  /\ feeCall' = [feeCall EXCEPT ![a] = [active |-> TRUE, fee |-> fee, ec |-> ec, sending |-> FALSE]]
  /\ UNCHANGED <<EngineClients, EngineClientsCap, EngineClientsLock, BlockProductionMustStop, mockerVars,
                 TTDReached, mutex, timerVars, ttd, pc, localVars, regCall, clientVars,
                 crashed, window, broadcastLog, terminalBlock, outcomeVars,
                 NextFeeRecipient, payloadAttributes, assigned, returned>>

\* Does the loop of setNextFeeRecipient write on this pass?
ProducerMatches(ec, producer) == ec = NilClient \/ (producer # NilClient /\ producer = ec)

\* big.NewInt(cl.LatestFinalizedNumber.Int64() + 1): a nil pointer
\* dereference while LatestFinalizedNumber is nil.
NextBlockNumber(finalizedNumber) ==
  IF finalizedNumber = NilNumber THEN [ok |-> FALSE, n |-> 0]
  ELSE [ok |-> TRUE, n |-> finalizedNumber + 1]

\* return big.NewInt(cl.LatestFinalizedNumber.Int64() + 1), nil and the
\* deferred Unlock of PayloadBuildMutex.
ReturnNextBlockNumber(a) ==
  LET number == NextBlockNumber(LatestFinalizedNumber) IN
  /\ mutex' = [mutex EXCEPT ![PayloadBuildMutex] = Free]
  /\ waiter' = [waiter EXCEPT ![a] = NoWaiter]
  /\ feeCall' = [feeCall EXCEPT ![a] = NoFeeCall]
  /\ returned' = returned \cup {number}
  /\ crashed' = ~number.ok

\* One pass of the loop of setNextFeeRecipient with PayloadBuildMutex held.
\* The requested client is not the producer: Unlock, Sleep and Lock again.
\* Otherwise NextFeeRecipient is written; without a transaction the call
\* ends, in a nil dereference when LatestFinalizedNumber is still nil, else
\* with the next block number; with a transaction SendTransaction is called
\* on ec, a nil dereference when ec is nil, and the mutex stays held.
setNextFeeRecipient(a) ==
  LET call == feeCall[a] IN
  /\ Running
  /\ call.active /\ ~call.sending
  /\ waiter[a] = [st |-> "holding", gate |-> PayloadBuildMutex]
  /\ IF ~ProducerMatches(call.ec, NextBlockProducer)
     THEN /\ mutex' = [mutex EXCEPT ![PayloadBuildMutex] = Free]
          /\ waiter' = [waiter EXCEPT ![a].st = "waiting"]
          /\ UNCHANGED <<NextFeeRecipient, feeCall, assigned, returned, crashed>>
     ELSE /\ NextFeeRecipient' = call.fee
          /\ assigned' = IF call.ec = NilClient THEN assigned ELSE assigned \cup {call.fee}
          /\ \E tx \in BOOLEAN :
               IF ~tx
               THEN ReturnNextBlockNumber(a)
               ELSE IF call.ec = NilClient
               THEN crashed' = TRUE /\ UNCHANGED <<mutex, waiter, feeCall, returned>>
               ELSE /\ feeCall' = [feeCall EXCEPT ![a].sending = TRUE]
                    /\ UNCHANGED <<mutex, waiter, returned, crashed>>
  /\ UNCHANGED <<EngineClients, EngineClientsCap, EngineClientsLock, BlockProductionMustStop,
                 mockerVars, TTDReached, timerVars, ttd, pc, localVars, regCall, clientVars,
                 window, broadcastLog, terminalBlock, outcomeVars, payloadAttributes>>

\* ec.Eth.SendTransaction returns (l.192-196): with an error the call ends
\* with it, else with the next block number; the deferred Unlock runs.
SendTransaction(a) ==
  /\ Running
  /\ feeCall[a].sending
  /\ \E err \in BOOLEAN :
       IF err
       THEN /\ mutex' = [mutex EXCEPT ![PayloadBuildMutex] = Free]
            /\ waiter' = [waiter EXCEPT ![a] = NoWaiter]
            /\ feeCall' = [feeCall EXCEPT ![a] = NoFeeCall]
            /\ UNCHANGED <<returned, crashed>>
       ELSE ReturnNextBlockNumber(a)
  /\ UNCHANGED <<EngineClients, EngineClientsCap, EngineClientsLock, BlockProductionMustStop,
                 mockerVars, TTDReached, timerVars, ttd, pc, localVars, regCall, clientVars,
                 window, broadcastLog, terminalBlock, outcomeVars, NextFeeRecipient,
                 payloadAttributes, assigned>>

\* ------------------------------------------------------ execution clients
\* A client on the PoW chain imports the next PoW block; only the secondary
\* client follows an alternative PoW chain beyond the terminal block.
SecondaryClient == NumClients
ClientMine(c) ==
  /\ Running
  /\ BuilderOf(chainHead[c]) = 0
  /\ NumOf(chainHead[c]) < (IF c = SecondaryClient THEN MaxPoWNumber ELSE terminalTotalDifficulty)
  /\ chainHead' = [chainHead EXCEPT ![c] = Hash(NumOf(@) + 1, 0)]
  /\ UNCHANGED <<EngineClients, EngineClientsCap, EngineClientsLock, BlockProductionMustStop, mockerVars,
                 TTDReached, mutex, timerVars, ttd, pc, localVars, actorVars, clientValid,
                 crashed, window, broadcastLog, terminalBlock, outcomeVars, feeVars>>

\* A client that is behind syncs to the head of a peer.
ClientSync(c, d) ==
  /\ Running
  /\ NumOf(chainHead[d]) > NumOf(chainHead[c])
  /\ chainHead' = [chainHead EXCEPT ![c] = chainHead[d]]
  /\ UNCHANGED <<EngineClients, EngineClientsCap, EngineClientsLock, BlockProductionMustStop, mockerVars,
                 TTDReached, mutex, timerVars, ttd, pc, localVars, actorVars, clientValid,
                 crashed, window, broadcastLog, terminalBlock, outcomeVars, feeVars>>

\* eth_getBlockByNumber / HeaderByNumber at a height: the client's head when
\* n is its height, an ancestor below it, an error above it (0).
HeaderHashAt(c, n) ==
  LET h == chainHead[c] IN
  IF n > NumOf(h) THEN ZeroHash
  ELSE IF n = NumOf(h) THEN h
  ELSE IF BuilderOf(h) # 0 /\ n \in DOMAIN ExecutedPayloadHistory
       THEN ExecutedPayloadHistory[n].BlockHash
       ELSE Hash(n, 0)

\* --------------------------------------------------- the payload broadcaster
Positions(reg) == 1..Len(reg)

\* make([]ForkChoiceOutcome, n), make([]ExecutePayloadOutcome, n): n outcomes
\* with neither response nor error.
ZeroOutcome == [ForkchoiceResponse |-> "nil", Error |-> "nil"]
ZeroExecuteOutcome == [ExecutePayloadResponse |-> "nil", Error |-> "nil"]
MakeForkChoiceOutcomes(n) == [k \in 1..n |-> ZeroOutcome]
MakeExecutePayloadOutcomes(n) == [k \in 1..n |-> ZeroExecuteOutcome]

\* The iteration the loop of a broadcast is at: the first position whose
\* outcome has not been written, one past the end when all have been.
NextCall(out) ==
  LET todo == {k \in DOMAIN out : out[k] \in {ZeroOutcome, ZeroExecuteOutcome}} IN
  IF todo = {} THEN Len(out) + 1 ELSE CHOOSE k \in todo : \A j \in todo : k <= j

\* engine_forkchoiceUpdatedV1 on client c without payload attributes: the
\* status it answers, and what it does: a client that holds the head as a
\* validated payload makes it its head.
ForkchoiceStatus(c, head) ==
  IF chainHead[c] = head \/ clientValid[c] = head THEN "SUCCESS" ELSE "SYNCING"
HeadAfterForkchoice(c, head) ==
  IF clientValid[c] = head THEN [chainHead EXCEPT ![c] = head] ELSE chainHead
ValidAfterForkchoice(c, head) ==
  IF clientValid[c] = head THEN [clientValid EXCEPT ![c] = ZeroHash] ELSE clientValid

\* The outcome of one call: the error, or the response.
ForkChoiceOutcome(c, head, err) ==
  IF err THEN [ForkchoiceResponse |-> "nil", Error |-> "error"]
  ELSE [ForkchoiceResponse |-> ForkchoiceStatus(c, head), Error |-> "nil"]

\* One iteration of the loop of broadcastForkchoiceUpdated: the call to
\* client c returns and the outcome is written at position k of out.  The
\* client has applied the update also when the call returns an error.
broadcastForkchoiceUpdated(out, k, c, head, err) ==
  /\ responses' = [out EXCEPT ![k] = ForkChoiceOutcome(c, head, err)]
  /\ chainHead' = HeadAfterForkchoice(c, head)
  /\ clientValid' = ValidAfterForkchoice(c, head)

\* engine_executePayloadV1 on client c: VALID needs the parent to be c's
\* head; any call may also fail with an error.
ExecuteAnswers(c, payload) ==
  IF chainHead[c] = payload.ParentHash THEN {"VALID", "INVALID", "error"}
  ELSE {"SYNCING", "error"}

\* The outcome of one call: the error, or the response.
ExecutePayloadOutcome(answer) ==
  IF answer = "error" THEN [ExecutePayloadResponse |-> "nil", Error |-> "error"]
  ELSE [ExecutePayloadResponse |-> answer, Error |-> "nil"]

\* One iteration of the loop of broadcastExecutePayload: the call to client c
\* returns and the outcome is written at position k of out.  A client that
\* answers VALID holds the payload as validated.
broadcastExecutePayload(out, k, c, payload, answer) ==
  /\ responses' = [out EXCEPT ![k] = ExecutePayloadOutcome(answer)]
  /\ clientValid' = IF answer = "VALID" THEN [clientValid EXCEPT ![c] = payload.BlockHash]
                    ELSE clientValid
  /\ broadcastLog' = broadcastLog \cup {payload.BlockHash}

\* hivesim's T.Fatalf: the calling goroutine ends (deferred calls run), the
\* callback does not continue and schedules nothing.
Fatalf == "fatal"

\* ------------------------------------------------------------- checkTTD
\* A checkTTD that samples a client without looking at the registry first.
checkTTDTickUnchecked ==
  /\ Running
  /\ checkTTDTimer > 0
  /\ ttd.pc = "idle"
  /\ ttd' = [ttd EXCEPT !.pc = "pick"]
  /\ checkTTDTimer' = checkTTDTimer - 1
  /\ UNCHANGED <<EngineClients, EngineClientsCap, EngineClientsLock, BlockProductionMustStop, mockerVars,
                 TTDReached, mutex, minePOSBlockTimer, pc, localVars, actorVars,
                 clientVars, crashed, window, broadcastLog, terminalBlock, outcomeVars,
                 feeVars>>

\* The timer fires: the emptiness check at the top of checkTTD.
checkTTDTick ==
  /\ Running
  /\ checkTTDTimer > 0
  /\ ttd.pc = "idle"
  /\ ttd' = [ttd EXCEPT !.pc = IF Len(EngineClients) = 0 THEN "empty" ELSE "pick"]
  /\ checkTTDTimer' = checkTTDTimer - 1
  /\ UNCHANGED <<EngineClients, EngineClientsCap, EngineClientsLock, BlockProductionMustStop, mockerVars,
                 TTDReached, mutex, minePOSBlockTimer, pc, localVars, actorVars,
                 clientVars, crashed, window, broadcastLog, terminalBlock, outcomeVars,
                 feeVars>>

\* No clients yet: time.AfterFunc(tTDCheckPeriod, cl.checkTTD) and return.
checkTTDReschedule ==
  /\ Running
  /\ ttd.pc = "empty"
  /\ ttd' = TTDIdle
  /\ checkTTDTimer' = checkTTDTimer + 1
  /\ UNCHANGED <<EngineClients, EngineClientsCap, EngineClientsLock, BlockProductionMustStop, mockerVars,
                 TTDReached, mutex, minePOSBlockTimer, pc, localVars, actorVars,
                 clientVars, crashed, window, broadcastLog, terminalBlock, outcomeVars,
                 feeVars>>

\* rand.Intn(len(cl.EngineClients)): panics when the registry is empty by now.
checkTTDPick ==
  /\ Running
  /\ ttd.pc = "pick"
  /\ IF Len(EngineClients) = 0
     THEN crashed' = TRUE /\ UNCHANGED ttd
     ELSE /\ \E idx \in Positions(EngineClients) : ttd' = [ttd EXCEPT !.pc = "index", !.idx = idx]
          /\ UNCHANGED crashed
  /\ UNCHANGED <<EngineClients, EngineClientsCap, EngineClientsLock, BlockProductionMustStop, mockerVars,
                 TTDReached, mutex, timerVars, pc, localVars, actorVars,
                 clientVars, window, broadcastLog, terminalBlock, outcomeVars, feeVars>>

\* td.TotalDifficulty.ToInt().Cmp(terminalTotalDifficulty) >= 0
ReachedTTDStrictly(td) == td > terminalTotalDifficulty
ReachedTTD(td) == td >= terminalTotalDifficulty

\* ec := cl.EngineClients[idx] (l.139): an index past the end of the
\* registry panics; eth_getBlockByNumber is called on ec.
checkTTDIndex ==
  /\ Running
  /\ ttd.pc = "index"
  /\ IF ttd.idx > Len(EngineClients)
     THEN crashed' = TRUE /\ UNCHANGED ttd
     ELSE /\ ttd' = [ttd EXCEPT !.pc = "query", !.ec = EngineClients[ttd.idx]]
          /\ UNCHANGED crashed
  /\ UNCHANGED <<EngineClients, EngineClientsCap, EngineClientsLock, BlockProductionMustStop,
                 mockerVars, TTDReached, mutex, timerVars, pc, localVars, actorVars,
                 clientVars, window, broadcastLog, terminalBlock, outcomeVars, feeVars>>

\* The totalDifficulty query on ec returns (l.142-147, l.167): Fatalf on an
\* error, else the comparison.
checkTTDQuery ==
  /\ Running
  /\ ttd.pc = "query"
  /\ \E err \in BOOLEAN :
       IF err
       THEN ttd' = [ttd EXCEPT !.pc = Fatalf] /\ UNCHANGED <<TTDReached, checkTTDTimer>>
       ELSE IF ReachedTTD(TotalDifficulty(chainHead[ttd.ec]))
            THEN /\ TTDReached' = TRUE
                 /\ ttd' = [ttd EXCEPT !.pc = "header"]
                 /\ UNCHANGED checkTTDTimer
            ELSE /\ ttd' = TTDIdle
                 /\ checkTTDTimer' = checkTTDTimer + 1
                 /\ UNCHANGED TTDReached
  /\ UNCHANGED <<EngineClients, EngineClientsCap, EngineClientsLock, BlockProductionMustStop,
                 mockerVars, mutex, minePOSBlockTimer, pc, localVars, actorVars, crashed,
                 clientVars, window, broadcastLog, terminalBlock, outcomeVars, feeVars>>

\* checkTTD returns right after scheduling minePOSBlock: it does not fall
\* through to the time.AfterFunc(tTDCheckPeriod, cl.checkTTD) below, so the
\* number t of pending checkTTD timers stays as it is.
TimersAfterFallThrough(t) == t + 1
TimersAfterTransition(t) == t

\* The three pointers are set to the hash of the header that was fetched.
InitialForkchoice(h) ==
  [HeadBlockHash |-> h, SafeBlockHash |-> h, FinalizedBlockHash |-> h]

\* The transition: head header of the sampled client, the three pointers,
\* and the call of broadcastForkchoiceUpdated up to its
\* make(.., len(cl.EngineClients)).  checkTTD holds no lock: the registry may
\* change before the range statement reads it.
checkTTDTransition ==
  /\ Running
  /\ ttd.pc = "header"
  /\ \E err \in BOOLEAN :
       IF err
       THEN /\ LatestFinalizedHeader' = NilHeader
            /\ ttd' = [ttd EXCEPT !.pc = Fatalf]
            /\ UNCHANGED <<LatestForkchoice, terminalBlock, responses>>
       ELSE LET h == chainHead[ttd.ec] IN
            /\ terminalBlock' = h
            /\ LatestFinalizedHeader' = HeaderOf(h)
            /\ LatestForkchoice' = InitialForkchoice(h)
            /\ responses' = MakeForkChoiceOutcomes(Len(EngineClients))
            /\ ttd' = [ttd EXCEPT !.pc = "broadcast", !.n = Len(EngineClients),
                                   !.was = {EngineClients[k] : k \in Positions(EngineClients)}]
  /\ UNCHANGED <<EngineClients, EngineClientsCap, EngineClientsLock, NextBlockProducer,
                 BlockProductionMustStop,
                 RandomHistory, ExecutedPayloadHistory, LatestFinalizedNumber,
                 LatestPayloadBuilt, LatestExecutedPayload, FirstPoSBlockNumber,
                 TTDReached, mutex, timerVars, pc, localVars, actorVars,
                 clientVars, crashed, window, broadcastLog, headerErrors, executeOutcomes, scanIndex, feeVars>>

\* The range statement of the initial broadcast (l.414) copies the slice
\* header of cl.EngineClients: the loop makes as many iterations as the
\* registry is long now, and reads each element from the array when it gets
\* there.
checkTTDRange ==
  /\ Running
  /\ ttd.pc = "broadcast"
  /\ ttd' = [ttd EXCEPT !.pc = "range", !.k = 1, !.arr = EngineClients, !.shared = TRUE]
  /\ UNCHANGED <<EngineClients, EngineClientsCap, EngineClientsLock, BlockProductionMustStop,
                 mockerVars, TTDReached, mutex, timerVars, pc, localVars, actorVars,
                 clientVars, crashed, window, broadcastLog, terminalBlock, outcomeVars,
                 feeVars>>

\* The loop goes to iteration k: it reads element k of the array, or it is
\* over.  Then checkTTD inspects the outcomes (an outcome the loop did not
\* write has neither response nor error: resp.ForkchoiceResponse.Status is a
\* nil pointer dereference), starts the first minePOSBlock timer and returns.
checkTTDNext(k, out, sent) ==
  IF k <= Len(ttd.arr)
  THEN /\ ttd' = [ttd EXCEPT !.pc = "call", !.k = k, !.cur = ttd.arr[k], !.sent = sent]
       /\ UNCHANGED <<timerVars, crashed>>
  ELSE IF \E j \in DOMAIN out : out[j] = ZeroOutcome
  THEN crashed' = TRUE /\ UNCHANGED <<timerVars, ttd>>
  ELSE /\ checkTTDTimer' = TimersAfterTransition(checkTTDTimer)
       /\ minePOSBlockTimer' = minePOSBlockTimer + 1
       /\ ttd' = TTDIdle
       /\ UNCHANGED crashed

\* The first iteration of the loop begins.
checkTTDElement ==
  /\ Running
  /\ ttd.pc = "range"
  /\ checkTTDNext(1, responses, ttd.sent)
  /\ UNCHANGED <<EngineClients, EngineClientsCap, EngineClientsLock, BlockProductionMustStop,
                 mockerVars, TTDReached, mutex, pc, localVars, actorVars,
                 clientVars, window, broadcastLog, terminalBlock, outcomeVars, feeVars>>

\* The call of an iteration returns and its outcome is written; the next
\* iteration begins.  With a registry that had grown between l.413 and l.414
\* the loop goes on beyond the outcome list: responses[i] panics (index out
\* of range).
checkTTDBroadcast ==
  /\ Running
  /\ ttd.pc = "call"
  /\ \E err \in BOOLEAN :
       IF ttd.k > ttd.n
       THEN /\ crashed' = TRUE
            /\ chainHead' = HeadAfterForkchoice(ttd.cur, LatestForkchoice.HeadBlockHash)
            /\ clientValid' = ValidAfterForkchoice(ttd.cur, LatestForkchoice.HeadBlockHash)
            /\ UNCHANGED <<responses, timerVars, ttd>>
       ELSE /\ broadcastForkchoiceUpdated(responses, ttd.k, ttd.cur,
                                          LatestForkchoice.HeadBlockHash, err)
            /\ checkTTDNext(ttd.k + 1, responses', ttd.sent \cup {ttd.cur})
  /\ UNCHANGED <<EngineClients, EngineClientsCap, EngineClientsLock, BlockProductionMustStop,
                 mockerVars, TTDReached, mutex, pc, localVars, actorVars,
                 window, broadcastLog, terminalBlock, headerErrors, executeOutcomes, scanIndex, feeVars>>

\* ----------------------------------------------------------- minePOSBlock
UnlockPc == <<"unlock_build", "unlock_getpayload", "unlock_exec", "unlock_head",
              "unlock_safe", "unlock_final">>
LockPc == <<"lock_build", "lock_getpayload", "lock_exec", "lock_head",
            "lock_safe", "lock_final">>
\* A cycle that goes from the head checkpoint straight to the finalized
\* broadcast.
AfterPcSkippingSafe == <<"build", "exec", "fcu_head", "fcu_final", "fcu_final", "return">>
\* Where the cycle continues when the Lock after the Unlock of gate g returns.
AfterPc == <<"build", "exec", "fcu_head", "fcu_safe", "fcu_final", "return">>

\* Where a cycle is inside unlockAll(cl): about to Unlock gate g, and then to
\* return (HaltPc) or to call cl.Fatalf (FatalPc).
HaltPc == <<"halt_build", "halt_getpayload", "halt_exec", "halt_head",
            "halt_safe", "halt_final">>
FatalPc == <<"fatal_build", "fatal_getpayload", "fatal_exec", "fatal_head",
             "fatal_safe", "fatal_final">>
UnlockAllPc(how) == IF how = Fatalf THEN FatalPc ELSE HaltPc
\* Invocation i is inside unlockAll, to return (how = "halted") or to call
\* Fatalf afterwards, or has done so.
Exiting(i, how) ==
  \/ pc[i] = how
  \/ \E g \in Gates : pc[i] = UnlockAllPc(how)[g]
  \/ pc[i] = IF how = Fatalf THEN "fatal_return" ELSE "halt_return"

\* unlockAll(cl) is called, to be followed by return or by cl.Fatalf: the
\* cycle is at the first of the six Unlock calls.
ExitCycle(i, how) ==
  /\ pc' = [pc EXCEPT ![i] = UnlockAllPc(how)[PayloadBuildMutex]]
  /\ window' = NoWindow
  /\ UNCHANGED <<mutex, crashed, EngineClientsLock>>

\* Where the cycle is when unlockAll has returned: before the return or the
\* Fatalf that follows it.
ReturnPc(how) == IF how = Fatalf THEN "fatal_return" ELSE "halt_return"

\* One Unlock of unlockAll.  Unlock of a mutex that is not locked is a fatal
\* runtime error ("sync: unlock of unlocked mutex"): the process dies.  Test
\* cases run between two Unlock calls.  After the last one unlockAll
\* returns.
unlockAll(i, g) ==
  /\ Running
  /\ \E how \in {"halted", Fatalf} :
       /\ pc[i] = UnlockAllPc(how)[g]
       /\ IF mutex[g] = Free
          THEN crashed' = TRUE /\ UNCHANGED <<mutex, pc>>
          ELSE /\ mutex' = [mutex EXCEPT ![g] = Free]
               /\ UNCHANGED crashed
               /\ pc' = [pc EXCEPT ![i] = IF g = NewFinalizedBlockForkchoiceMutex
                                          THEN ReturnPc(how)
                                          ELSE UnlockAllPc(how)[g + 1]]
  /\ UNCHANGED <<EngineClients, EngineClientsCap, EngineClientsLock, BlockProductionMustStop,
                 mockerVars, TTDReached, timerVars, ttd, localVars, actorVars,
                 clientVars, window, broadcastLog, terminalBlock, outcomeVars, feeVars>>

\* After unlockAll the cycle returns (l.221, l.384) or calls Fatalf, which
\* ends the goroutine; the deferred EngineClientsLock.Unlock (l.218) runs.
ReturnAfterUnlockAll(i) ==
  /\ Running
  /\ \E how \in {"halted", Fatalf} :
       /\ pc[i] = ReturnPc(how)
       /\ pc' = [pc EXCEPT ![i] = how]
  /\ EngineClientsLock' = Free
  /\ UNCHANGED <<EngineClients, EngineClientsCap, BlockProductionMustStop, mockerVars,
                 TTDReached, mutex, timerVars, ttd, localVars, actorVars, crashed,
                 clientVars, window, broadcastLog, terminalBlock, outcomeVars, feeVars>>

\* The minePOSBlock timer fires: an invocation starts and calls Lock.
minePOSBlockStart(i) ==
  /\ Running
  /\ minePOSBlockTimer > 0
  /\ pc[i] = "idle"
  /\ \A j \in Invs : j < i => pc[j] # "idle"
  /\ Cardinality(DOMAIN ExecutedPayloadHistory) < MaxCycles \/ BlockProductionMustStop
  /\ responses' = <<>>
  /\ opened' = <<>>
  /\ minePOSBlockTimer' = minePOSBlockTimer - 1
  /\ pc' = [pc EXCEPT ![i] = "lock_registry"]
  /\ UNCHANGED <<EngineClients, EngineClientsCap, EngineClientsLock, BlockProductionMustStop, mockerVars,
                 TTDReached, mutex, checkTTDTimer, ttd, lastBlockNumber, nextRandom, actorVars,
                 clientVars, crashed, window, broadcastLog, terminalBlock, headerErrors, executeOutcomes,
                 scanIndex, feeVars>>

\* cl.EngineClientsLock.Lock() returns.
LockRegistry(i) ==
  /\ Running
  /\ pc[i] = "lock_registry"
  /\ CanLock(EngineClientsLock)
  /\ EngineClientsLock' = InvHolder(i)
  /\ pc' = [pc EXCEPT ![i] = "check_stop"]
  /\ UNCHANGED <<EngineClients, EngineClientsCap, BlockProductionMustStop, mockerVars,
                 TTDReached, mutex, timerVars, ttd, localVars, actorVars,
                 clientVars, crashed, window, broadcastLog, terminalBlock, outcomeVars,
                 feeVars>>

\* The stop check at the top of the cycle.
CheckStop(i) ==
  /\ Running
  /\ pc[i] = "check_stop"
  /\ IF BlockProductionMustStop
     THEN ExitCycle(i, "halted")
     ELSE /\ pc' = [pc EXCEPT ![i] = "select"]
          /\ UNCHANGED <<EngineClientsLock, mutex, crashed, window>>
  /\ UNCHANGED <<EngineClients, EngineClientsCap, BlockProductionMustStop, mockerVars,
                 TTDReached, timerVars, ttd, localVars, actorVars,
                 clientVars, broadcastLog, terminalBlock, outcomeVars, feeVars>>

\* The two tests of the selection loop: the height test is skipped while
\* LatestFinalizedNumber is nil, the hash test is always made.
HeightMatchesNone(finalizedNumber, height) == FALSE
HeightMatches(finalizedNumber, height) ==
  ~(finalizedNumber # NilNumber /\ finalizedNumber # height)
HashMatchesAlways(finalizedHash, hash) == TRUE
HashMatches(finalizedHash, hash) == finalizedHash = hash

\* Where a cycle is inside the selection loop: about to draw (l.227),
\* waiting for BlockNumber (l.230), waiting for HeaderByNumber (l.243).
SelectPcs == {"select", "select_number", "select_header"}

\* The selection loop draws: rand.Intn(len(cl.EngineClients)), which panics
\* on an empty registry, and NextBlockProducer (l.227-228); BlockNumber is
\* called.
SelectProposer(i) ==
  /\ Running
  /\ pc[i] = "select"
  /\ IF Len(EngineClients) = 0
     THEN crashed' = TRUE /\ UNCHANGED <<NextBlockProducer, pc>>
     ELSE /\ \E idx \in Positions(EngineClients) : NextBlockProducer' = EngineClients[idx]
          /\ pc' = [pc EXCEPT ![i] = "select_number"]
          /\ UNCHANGED crashed
  /\ UNCHANGED <<EngineClients, EngineClientsCap, EngineClientsLock, BlockProductionMustStop,
                 RandomHistory, ExecutedPayloadHistory, LatestFinalizedNumber,
                 LatestFinalizedHeader, LatestPayloadBuilt, LatestExecutedPayload,
                 LatestForkchoice, FirstPoSBlockNumber, TTDReached, mutex, timerVars, ttd,
                 localVars, actorVars, clientVars, window, broadcastLog, terminalBlock,
                 outcomeVars, feeVars>>

\* BlockNumber on the client drawn returns (l.230-241): unlockAll and Fatalf
\* on an error; else the height test, which draws again or calls
\* HeaderByNumber at the height reported.
SelectBlockNumber(i) ==
  /\ Running
  /\ pc[i] = "select_number"
  /\ \E err \in BOOLEAN :
       LET height == NumOf(chainHead[NextBlockProducer]) IN
       IF err
       THEN ExitCycle(i, Fatalf) /\ UNCHANGED lastBlockNumber
       ELSE /\ lastBlockNumber' = [lastBlockNumber EXCEPT ![i] = height]
            /\ pc' = [pc EXCEPT ![i] = IF HeightMatches(LatestFinalizedNumber, height)
                                       THEN "select_header" ELSE "select"]
            /\ UNCHANGED <<EngineClientsLock, mutex, crashed, window>>
  /\ UNCHANGED <<EngineClients, EngineClientsCap, NextBlockProducer, BlockProductionMustStop,
                 RandomHistory, ExecutedPayloadHistory, LatestFinalizedNumber,
                 LatestFinalizedHeader, LatestPayloadBuilt, LatestExecutedPayload,
                 LatestForkchoice, FirstPoSBlockNumber, TTDReached, timerVars, ttd,
                 nextRandom, opened, actorVars, clientVars, broadcastLog, terminalBlock,
                 outcomeVars, feeVars>>

\* HeaderByNumber at the height reported returns (l.243-256): unlockAll and
\* Fatalf on an error; else the hash test, which breaks or draws again.
SelectHeader(i) ==
  /\ Running
  /\ pc[i] = "select_header"
  /\ \E err \in BOOLEAN :
       LET hash == HeaderHashAt(NextBlockProducer, lastBlockNumber[i]) IN
       IF err \/ hash = ZeroHash
       THEN ExitCycle(i, Fatalf)
       ELSE /\ pc' = [pc EXCEPT ![i] = IF HashMatches(LatestFinalizedHeader.Hash, hash)
                                       THEN UnlockPc[PayloadBuildMutex] ELSE "select"]
            /\ UNCHANGED <<EngineClientsLock, mutex, crashed, window>>
  /\ UNCHANGED <<EngineClients, EngineClientsCap, NextBlockProducer, BlockProductionMustStop,
                 RandomHistory, ExecutedPayloadHistory, LatestFinalizedNumber,
                 LatestFinalizedHeader, LatestPayloadBuilt, LatestExecutedPayload,
                 LatestForkchoice, FirstPoSBlockNumber, TTDReached, timerVars, ttd,
                 localVars, actorVars, clientVars, broadcastLog, terminalBlock,
                 outcomeVars, feeVars>>

\* mutex.Unlock() of a checkpoint: the window of gate g opens.
OpenCheckpoint(i, g) ==
  /\ Running
  /\ pc[i] = UnlockPc[g]
  /\ responses' = <<>>
  /\ headerErrors' = {}
  /\ executeOutcomes' = IF g = NewFinalizedBlockForkchoiceMutex THEN <<>> ELSE executeOutcomes
  /\ assigned' = IF g = PayloadBuildMutex THEN {} ELSE assigned
  /\ returned' = IF g = PayloadBuildMutex THEN {} ELSE returned
  /\ IF mutex[g] = Free
     THEN crashed' = TRUE /\ UNCHANGED <<mutex, pc, window, opened>>
     ELSE /\ mutex' = [mutex EXCEPT ![g] = Free]
          /\ opened' = Append(opened, g)
          /\ pc' = [pc EXCEPT ![i] = IF g = NewFinalizedBlockForkchoiceMutex
                                     THEN "check_stop_end" ELSE LockPc[g]]
          /\ window' = {a \in Actors : waiter[a] = [st |-> "waiting", gate |-> g]}
          /\ UNCHANGED crashed
  /\ UNCHANGED <<EngineClients, EngineClientsCap, EngineClientsLock, BlockProductionMustStop, mockerVars,
                 TTDReached, timerVars, ttd, lastBlockNumber, nextRandom, actorVars,
                 clientVars, broadcastLog, terminalBlock, scanIndex, NextFeeRecipient, feeCall,
                 payloadAttributes>>

\* The Lock after the Unlock left out: the cycle goes on without the gate.
CloseCheckpointNoLock(i, g) ==
  /\ Running
  /\ g # NewFinalizedBlockForkchoiceMutex
  /\ pc[i] = LockPc[g]
  /\ pc' = [pc EXCEPT ![i] = AfterPc[g]]
  /\ window' = NoWindow
  /\ UNCHANGED <<EngineClients, EngineClientsCap, EngineClientsLock, BlockProductionMustStop, mockerVars,
                 TTDReached, mutex, timerVars, ttd, localVars, actorVars,
                 clientVars, crashed, broadcastLog, terminalBlock, outcomeVars, feeVars>>

\* mutex.Lock() of a checkpoint returns: the window of gate g closes.
CloseCheckpoint(i, g) ==
  /\ Running
  /\ g # NewFinalizedBlockForkchoiceMutex
  /\ pc[i] = LockPc[g]
  /\ CanLock(mutex[g])
  /\ mutex' = [mutex EXCEPT ![g] = Orch]
  /\ pc' = [pc EXCEPT ![i] = AfterPc[g]]
  /\ window' = NoWindow
  /\ UNCHANGED <<EngineClients, EngineClientsCap, EngineClientsLock, BlockProductionMustStop, mockerVars,
                 TTDReached, timerVars, ttd, localVars, actorVars,
                 clientVars, crashed, broadcastLog, terminalBlock, outcomeVars, feeVars>>

\* The payload the proposer returns from engine_getPayloadV1: built on the
\* head of the forkchoice state it was given, with the given random.
BuildPayload(ec, fc, rnd) ==
  [Number |-> NumOf(fc.HeadBlockHash) + 1,
   BlockHash |-> Hash(NumOf(fc.HeadBlockHash) + 1, ec),
   ParentHash |-> fc.HeadBlockHash,
   Random |-> rnd]

\* rand.Read: 32 random bytes, a value that was not drawn before.
FreshRandoms ==
  LET used == {RandomHistory[n] : n \in DOMAIN RandomHistory}
      first == CHOOSE r \in Randoms : r \notin used /\ \A q \in Randoms \ used : r <= q
  IN IF Randoms \subseteq used THEN Randoms ELSE {first}

\* nextRandom and payloadAttributes (l.264-271); forkchoiceUpdated with the
\* attributes is called on the proposer.
PayloadAttributesStep(i) ==
  /\ Running
  /\ pc[i] = AfterPc[PayloadBuildMutex]
  /\ \E rnd \in FreshRandoms :
       /\ nextRandom' = [nextRandom EXCEPT ![i] = rnd]
       /\ payloadAttributes' = [Random |-> rnd, SuggestedFeeRecipient |-> NextFeeRecipient]
  /\ pc' = [pc EXCEPT ![i] = "build_request"]
  /\ UNCHANGED <<EngineClients, EngineClientsCap, EngineClientsLock, BlockProductionMustStop,
                 mockerVars, TTDReached, mutex, timerVars, ttd, lastBlockNumber, opened,
                 actorVars, clientVars, crashed, window, broadcastLog, terminalBlock,
                 outcomeVars, NextFeeRecipient, feeCall, assigned, returned>>

\* forkchoiceUpdated with payload attributes returns (l.273-280): unlockAll
\* and Fatalf on an error; else getPayload is called.
BuildStep(i) ==
  /\ Running
  /\ pc[i] = "build_request"
  /\ \E err \in BOOLEAN :
       IF err
       THEN ExitCycle(i, Fatalf)
       ELSE /\ pc' = [pc EXCEPT ![i] = "getpayload"]
            /\ UNCHANGED <<EngineClientsLock, mutex, crashed, window>>
  /\ UNCHANGED <<EngineClients, EngineClientsCap, BlockProductionMustStop, mockerVars,
                 TTDReached, timerVars, ttd, localVars, actorVars, clientVars,
                 broadcastLog, terminalBlock, outcomeVars, feeVars>>

\* getPayload returns (l.282-286): LatestPayloadBuilt is assigned, also on
\* an error, which ends the cycle in unlockAll and Fatalf.
GetPayloadStep(i) ==
  /\ Running
  /\ pc[i] = "getpayload"
  /\ \E err \in BOOLEAN :
       IF err
       THEN ExitCycle(i, Fatalf) /\ LatestPayloadBuilt' = NoPayload
       ELSE /\ LatestPayloadBuilt' =
                 BuildPayload(NextBlockProducer, LatestForkchoice, nextRandom[i])
            /\ pc' = [pc EXCEPT ![i] = UnlockPc[NewGetPayloadMutex]]
            /\ UNCHANGED <<EngineClientsLock, mutex, crashed, window>>
  /\ UNCHANGED <<EngineClients, EngineClientsCap, NextBlockProducer, BlockProductionMustStop,
                 RandomHistory, ExecutedPayloadHistory, LatestFinalizedNumber,
                 LatestFinalizedHeader, LatestExecutedPayload, LatestForkchoice,
                 FirstPoSBlockNumber, TTDReached, timerVars, ttd, localVars, actorVars,
                 clientVars, broadcastLog, terminalBlock, outcomeVars, feeVars>>

\* map = {k: v}: the map is replaced, earlier keys are gone.
MapReplace(m, k, v) == [x \in {k} |-> v]
\* map[k] = v
MapSet(m, k, v) == [x \in DOMAIN m \cup {k} |-> IF x = k THEN v ELSE m[x]]

\* The loop over the outcomes of broadcastExecutePayload only logs the
\* errors and the responses that are not VALID: the cycle goes on.
AfterExecuteResponses(out) == UnlockPc[NewExecutePayloadMutex]

\* The outcome list a broadcast of the cycle works on: made when the
\* broadcast is called, with one outcome per registered client.
OutcomesSoFar(made) == IF responses = <<>> THEN made ELSE responses

\* broadcastExecutePayload: one call of its loop returns; after the last
\* one the outcomes are inspected and LatestExecutedPayload and
\* ExecutedPayloadHistory are written.
ExecuteStep(i) ==
  /\ Running
  /\ pc[i] = AfterPc[NewGetPayloadMutex]
  /\ LET out == OutcomesSoFar(MakeExecutePayloadOutcomes(Len(EngineClients)))
         k == NextCall(out)
     IN
     /\ IF k > Len(EngineClients)
        THEN responses' = out /\ UNCHANGED <<clientValid, broadcastLog>>
        ELSE \E answer \in ExecuteAnswers(EngineClients[k], LatestPayloadBuilt) :
               broadcastExecutePayload(out, k, EngineClients[k], LatestPayloadBuilt, answer)
     /\ IF k >= Len(EngineClients)
        THEN /\ pc' = [pc EXCEPT ![i] = AfterExecuteResponses(responses')]
             /\ LatestExecutedPayload' = LatestPayloadBuilt
             /\ ExecutedPayloadHistory' =
                  MapSet(ExecutedPayloadHistory, LatestPayloadBuilt.Number, LatestPayloadBuilt)
        ELSE UNCHANGED <<pc, LatestExecutedPayload, ExecutedPayloadHistory>>
  /\ executeOutcomes' = responses'
  /\ UNCHANGED <<EngineClients, EngineClientsCap, EngineClientsLock, NextBlockProducer,
                 BlockProductionMustStop,
                 RandomHistory, LatestFinalizedNumber, LatestFinalizedHeader,
                 LatestPayloadBuilt, LatestForkchoice, FirstPoSBlockNumber,
                 TTDReached, mutex, timerVars, ttd, localVars, actorVars,
                 chainHead, crashed, window, terminalBlock, headerErrors, scanIndex,
                 feeVars>>

\* The three pointer updates, each from the BlockHash of LatestPayloadBuilt.
SetHeadToRandom(fc, payload) == [fc EXCEPT !.HeadBlockHash = payload.Random]
SetHead(fc, payload) == [fc EXCEPT !.HeadBlockHash = payload.BlockHash]
SetSafeAsFinalized(fc, payload) == [fc EXCEPT !.FinalizedBlockHash = payload.BlockHash]
SetSafe(fc, payload) == [fc EXCEPT !.SafeBlockHash = payload.BlockHash]
SetFinalized(fc, payload) == [fc EXCEPT !.FinalizedBlockHash = payload.BlockHash]

\* Where the cycle is while the loop of a forkchoiceUpdated broadcast runs:
\* the pointer has been written and the outcome list made.
HeadCallsPc == "calls_head"
SafeCallsPc == "calls_safe"
FinalizedCallsPc == "calls_final"

\* A pointer of LatestForkchoice is written and broadcastForkchoiceUpdated
\* is called: it makes its outcome list (l.413), no call has returned.
ForkchoiceStep(fc) ==
  /\ LatestForkchoice' = fc
  /\ responses' = MakeForkChoiceOutcomes(Len(EngineClients))

\* One call of the loop of broadcastForkchoiceUpdated returns.
ForkchoiceCall ==
  LET k == NextCall(responses) IN
  IF k > Len(EngineClients)
  THEN UNCHANGED <<responses, clientVars>>
  ELSE \E err \in BOOLEAN :
         broadcastForkchoiceUpdated(responses, k, EngineClients[k],
                                    LatestForkchoice.HeadBlockHash, err)
\* The loop is over with this call.
LastCall == NextCall(responses) >= Len(EngineClients)

\* HeadBlockHash is written (l.309) and the broadcast is called.
HeadStep(i) ==
  /\ Running
  /\ pc[i] = AfterPc[NewExecutePayloadMutex]
  /\ ForkchoiceStep(SetHead(LatestForkchoice, LatestPayloadBuilt))
  /\ pc' = [pc EXCEPT ![i] = HeadCallsPc]
  /\ UNCHANGED <<EngineClients, EngineClientsCap, EngineClientsLock, NextBlockProducer,
                 BlockProductionMustStop,
                 RandomHistory, ExecutedPayloadHistory, LatestFinalizedNumber,
                 LatestFinalizedHeader, LatestPayloadBuilt, LatestExecutedPayload,
                 FirstPoSBlockNumber, TTDReached, mutex, timerVars, ttd, localVars,
                 actorVars, clientVars, crashed, window, broadcastLog, terminalBlock,
                 headerErrors, executeOutcomes, scanIndex, feeVars>>

\* The broadcast of the head: one call returns.
HeadBroadcast(i) ==
  /\ Running
  /\ pc[i] = HeadCallsPc
  /\ ForkchoiceCall
  /\ pc' = IF LastCall THEN [pc EXCEPT ![i] = UnlockPc[NewHeadBlockForkchoiceMutex]] ELSE pc
  /\ UNCHANGED <<EngineClients, EngineClientsCap, EngineClientsLock, BlockProductionMustStop,
                 mockerVars, TTDReached, mutex, timerVars, ttd, localVars,
                 actorVars, crashed, window, broadcastLog, terminalBlock, headerErrors, executeOutcomes,
                 scanIndex, feeVars>>

\* SafeBlockHash is written (l.322) and the broadcast is called.
SafeStep(i) ==
  /\ Running
  /\ pc[i] = AfterPc[NewHeadBlockForkchoiceMutex]
  /\ ForkchoiceStep(SetSafe(LatestForkchoice, LatestPayloadBuilt))
  /\ pc' = [pc EXCEPT ![i] = SafeCallsPc]
  /\ UNCHANGED <<EngineClients, EngineClientsCap, EngineClientsLock, NextBlockProducer,
                 BlockProductionMustStop,
                 RandomHistory, ExecutedPayloadHistory, LatestFinalizedNumber,
                 LatestFinalizedHeader, LatestPayloadBuilt, LatestExecutedPayload,
                 FirstPoSBlockNumber, TTDReached, mutex, timerVars, ttd, localVars,
                 actorVars, clientVars, crashed, window, broadcastLog, terminalBlock,
                 headerErrors, executeOutcomes, scanIndex, feeVars>>

\* The broadcast of the safe block: one call returns.
SafeBroadcast(i) ==
  /\ Running
  /\ pc[i] = SafeCallsPc
  /\ ForkchoiceCall
  /\ pc' = IF LastCall THEN [pc EXCEPT ![i] = UnlockPc[NewSafeBlockForkchoiceMutex]] ELSE pc
  /\ UNCHANGED <<EngineClients, EngineClientsCap, EngineClientsLock, BlockProductionMustStop,
                 mockerVars, TTDReached, mutex, timerVars, ttd, localVars,
                 actorVars, crashed, window, broadcastLog, terminalBlock, headerErrors, executeOutcomes,
                 scanIndex, feeVars>>

\* The random value stored under the number of the header the cycle began from.
RandomHistoryKeyOfHeader(header) == header.Number
\* "Save random value": the key is cl.LatestFinalizedHeader.Number.Uint64()+1.
RandomHistoryKey(header) == header.Number + 1

\* "Save the number of the first PoS block": written only while it is nil.
SaveFirstPoSBlockNumberEveryCycle(first, header) == header.Number + 1
SaveFirstPoSBlockNumber(first, header) ==
  IF first = NilNumber THEN header.Number + 1 ELSE first

\* A scan without the break: it goes on after a client returned a header.
AfterHeaderNoBreak(k, n) == IF k < n THEN k + 1 ELSE 0
\* The accepted-header scan breaks at the first header it gets (0: the loop
\* is over).
AfterHeader(k, n) == 0

\* Where the cycle is while the accepted-header scan runs.
ScanPc == "scan"

\* FinalizedBlockHash is written (l.335) and the broadcast is called.
FinalizedStep(i) ==
  /\ Running
  /\ pc[i] = AfterPc[NewSafeBlockForkchoiceMutex]
  /\ ForkchoiceStep(SetFinalized(LatestForkchoice, LatestPayloadBuilt))
  /\ pc' = [pc EXCEPT ![i] = FinalizedCallsPc]
  /\ UNCHANGED <<EngineClients, EngineClientsCap, EngineClientsLock, NextBlockProducer,
                 BlockProductionMustStop,
                 RandomHistory, ExecutedPayloadHistory, LatestFinalizedNumber,
                 LatestFinalizedHeader, LatestPayloadBuilt, LatestExecutedPayload,
                 FirstPoSBlockNumber, TTDReached, mutex, timerVars, ttd, localVars,
                 actorVars, clientVars, crashed, window, broadcastLog, terminalBlock,
                 headerErrors, executeOutcomes, scanIndex, feeVars>>

\* The broadcast of the finalized block: one call returns; after the last
\* one RandomHistory, FirstPoSBlockNumber and LatestFinalizedNumber are
\* written, LatestFinalizedHeader is set to nil and the scan begins.
FinalizedBroadcast(i) ==
  /\ Running
  /\ pc[i] = FinalizedCallsPc
  /\ ForkchoiceCall
  /\ IF LastCall
     THEN /\ RandomHistory' =
               MapSet(RandomHistory, RandomHistoryKey(LatestFinalizedHeader), nextRandom[i])
          /\ FirstPoSBlockNumber' =
               SaveFirstPoSBlockNumber(FirstPoSBlockNumber, LatestFinalizedHeader)
          /\ LatestFinalizedNumber' = lastBlockNumber[i] + 1
          /\ LatestFinalizedHeader' = NilHeader
          /\ scanIndex' = 1
          /\ pc' = [pc EXCEPT ![i] = ScanPc]
     ELSE UNCHANGED <<RandomHistory, FirstPoSBlockNumber, LatestFinalizedNumber,
                      LatestFinalizedHeader, scanIndex, pc>>
  /\ UNCHANGED <<EngineClients, EngineClientsCap, EngineClientsLock, NextBlockProducer,
                 BlockProductionMustStop,
                 ExecutedPayloadHistory, LatestPayloadBuilt, LatestExecutedPayload,
                 LatestForkchoice,
                 TTDReached, mutex, timerVars, ttd, localVars, actorVars, crashed, window,
                 broadcastLog, terminalBlock, headerErrors, executeOutcomes, feeVars>>

\* One iteration of the accepted-header scan: HeaderByNumber on the client
\* at position scanIndex returns.  A client that has no block at that height
\* answers with an error, one that has it answers with its header unless the
\* call fails.  The first header ends the scan and the cycle goes on
\* (SwitchProtocol for every client); when the scan has asked every client
\* and has none, unlockAll and Fatalf.  Fatalf ends the goroutine, the
\* outcome list of the broadcast is gone with it.
ScanStep(i) ==
  /\ Running
  /\ pc[i] = ScanPc
  /\ LET k == scanIndex
         n == Len(EngineClients)
         hash == IF k <= n THEN HeaderHashAt(EngineClients[k], LatestFinalizedNumber)
                 ELSE ZeroHash
     IN
     \E err \in BOOLEAN :
       /\ err => hash # ZeroHash
       /\ headerErrors' = IF err THEN headerErrors \cup {k} ELSE headerErrors
       /\ IF hash # ZeroHash /\ ~err
          THEN /\ LatestFinalizedHeader' = HeaderOf(hash)
               /\ IF AfterHeader(k, n) = 0
                  THEN /\ scanIndex' = 0
                       /\ pc' = [pc EXCEPT ![i] = UnlockPc[NewFinalizedBlockForkchoiceMutex]]
                  ELSE scanIndex' = AfterHeader(k, n) /\ UNCHANGED pc
               /\ UNCHANGED <<responses, EngineClientsLock, mutex, crashed, window>>
          ELSE IF k < n
          THEN /\ scanIndex' = k + 1
               /\ UNCHANGED <<LatestFinalizedHeader, responses, pc, EngineClientsLock, mutex,
                              crashed, window>>
          ELSE /\ scanIndex' = 0
               /\ IF LatestFinalizedHeader = NilHeader
                  THEN responses' = <<>> /\ ExitCycle(i, Fatalf)
                  ELSE /\ pc' = [pc EXCEPT ![i] = UnlockPc[NewFinalizedBlockForkchoiceMutex]]
                       /\ UNCHANGED <<responses, EngineClientsLock, mutex, crashed, window>>
               /\ UNCHANGED LatestFinalizedHeader
  /\ UNCHANGED <<EngineClients, EngineClientsCap, NextBlockProducer, BlockProductionMustStop,
                 RandomHistory, ExecutedPayloadHistory, LatestFinalizedNumber,
                 LatestPayloadBuilt, LatestExecutedPayload, LatestForkchoice,
                 FirstPoSBlockNumber,
                 TTDReached, timerVars, ttd, localVars, actorVars, clientVars,
                 broadcastLog, terminalBlock, executeOutcomes, feeVars>>

\* A closing stop check that takes the exit branch whatever the flag says.
CheckStopEndAlwaysExit(i) ==
  /\ Running
  /\ pc[i] = "check_stop_end"
  /\ ExitCycle(i, "halted")
  /\ UNCHANGED <<EngineClients, EngineClientsCap, BlockProductionMustStop, mockerVars,
                 TTDReached, timerVars, ttd, localVars, actorVars,
                 clientVars, broadcastLog, terminalBlock, outcomeVars, feeVars>>

\* The stop check at the end of the cycle, after the last Unlock.
CheckStopEnd(i) ==
  /\ Running
  /\ pc[i] = "check_stop_end"
  /\ IF BlockProductionMustStop
     THEN ExitCycle(i, "halted")
     ELSE /\ pc' = [pc EXCEPT ![i] = LockPc[NewFinalizedBlockForkchoiceMutex]]
          /\ UNCHANGED <<EngineClientsLock, mutex, crashed, window>>
  /\ UNCHANGED <<EngineClients, EngineClientsCap, BlockProductionMustStop, mockerVars,
                 TTDReached, timerVars, ttd, localVars, actorVars,
                 clientVars, broadcastLog, terminalBlock, outcomeVars, feeVars>>

\* The number of minePOSBlock timers a finishing cycle starts.
TimersAfterCycle == 1

\* NewFinalizedBlockForkchoiceMutex.Lock() returns, the next cycle is
\* scheduled, minePOSBlock returns and the deferred Unlock runs.
FinishCycle(i) ==
  /\ Running
  /\ pc[i] = LockPc[NewFinalizedBlockForkchoiceMutex]
  /\ CanLock(mutex[NewFinalizedBlockForkchoiceMutex])
  /\ mutex' = [mutex EXCEPT ![NewFinalizedBlockForkchoiceMutex] = Orch]
  /\ minePOSBlockTimer' = minePOSBlockTimer + TimersAfterCycle
  /\ EngineClientsLock' = Free
  /\ pc' = [pc EXCEPT ![i] = "idle"]
  /\ lastBlockNumber' = [lastBlockNumber EXCEPT ![i] = 0]
  /\ nextRandom' = [nextRandom EXCEPT ![i] = 0]
  /\ window' = NoWindow
  /\ UNCHANGED <<EngineClients, EngineClientsCap, BlockProductionMustStop, mockerVars,
                 TTDReached, checkTTDTimer, ttd, actorVars, opened,
                 clientVars, crashed, broadcastLog, terminalBlock, outcomeVars, feeVars>>

\* ----------------------------------------------------------- specification
TestSteps ==
  \/ \E a \in Actors, g \in Gates : WaitCheckpoint(a, g)
  \/ \E a \in Actors : AcquireCheckpoint(a)
  \/ \E a \in Actors : ReleaseCheckpoint(a)

RegistrySteps ==
  \/ \E by \in Callers, c \in Clients : CallAddEngineClient(by, c)
  \/ \E by \in Callers, c \in Clients : CallRemoveEngineClient(by, c)
  \/ AddEngineClient
  \/ RemoveEngineClient
  \/ stopPoSBlockProduction

ClientSteps ==
  \/ \E c \in Clients : ClientMine(c)
  \/ \E c, d \in Clients : ClientSync(c, d)

\* checkTTD with a registry that is not empty.
PollSteps ==
  \/ checkTTDTick
  \/ checkTTDPick
  \/ checkTTDIndex
  \/ checkTTDQuery
  \/ checkTTDTransition
  \/ checkTTDRange
  \/ checkTTDElement
  \/ checkTTDBroadcast

CycleSteps ==
  \/ \E i \in Invs : minePOSBlockStart(i)
  \/ \E i \in Invs : LockRegistry(i)
  \/ \E i \in Invs : CheckStop(i)
  \/ \E i \in Invs : SelectProposer(i)
  \/ \E i \in Invs : SelectBlockNumber(i)
  \/ \E i \in Invs : SelectHeader(i)
  \/ \E i \in Invs, g \in Gates : OpenCheckpoint(i, g)
  \/ \E i \in Invs, g \in Gates : CloseCheckpoint(i, g)
  \/ \E i \in Invs : PayloadAttributesStep(i)
  \/ \E i \in Invs : BuildStep(i)
  \/ \E i \in Invs : GetPayloadStep(i)
  \/ \E i \in Invs : ExecuteStep(i)
  \/ \E i \in Invs : HeadStep(i)
  \/ \E i \in Invs : HeadBroadcast(i)
  \/ \E i \in Invs : SafeStep(i)
  \/ \E i \in Invs : SafeBroadcast(i)
  \/ \E i \in Invs : FinalizedStep(i)
  \/ \E i \in Invs : FinalizedBroadcast(i)
  \/ \E i \in Invs : ScanStep(i)
  \/ \E i \in Invs : CheckStopEnd(i)
  \/ \E i \in Invs : FinishCycle(i)
  \/ \E i \in Invs, g \in Gates : unlockAll(i, g)
  \/ \E i \in Invs : ReturnAfterUnlockAll(i)

MockerSteps == PollSteps \/ checkTTDReschedule \/ CycleSteps

Next == TestSteps \/ RegistrySteps \/ ClientSteps \/ MockerSteps

\* The checkpoint protocol with clients that have reached the terminal block
\* before the mocker is created.
OneClient == CHOOSE c \in Clients : \A d \in Clients : c <= d
RegistryStepsSync ==
  \/ \E by \in Callers : CallAddEngineClient(by, OneClient)
  \/ \E by \in Callers : CallRemoveEngineClient(by, OneClient)
  \/ AddEngineClient
  \/ RemoveEngineClient
  \/ stopPoSBlockProduction
NextSync == TestSteps \/ RegistryStepsSync \/ MockerSteps

\* Block production without test cases waiting on checkpoints.
NextData == RegistrySteps \/ ClientSteps \/ MockerSteps

Spec == Init /\ [][Next]_vars
DataSpec == Init /\ [][NextData]_vars
SyncSpec == InitSync /\ [][NextSync]_vars

\* Block production for a registered cluster whose clients have all
\* reached the terminal block; the client that goes on mining was registered
\* first, its peers after it in their order; a client may mine and sync on
\* its own.
NotSecondary(c) == c # SecondaryClient
ClusterRegistry == <<SecondaryClient>> \o SelectSeq([k \in Cluster |-> k], NotSecondary)
InitCluster == InitWith(ClusterRegistry, [c \in Cluster |-> TerminalHash])
ClusterClientSteps ==
  \/ \E c \in Cluster : ClientMine(c)
  \/ \E c, d \in Cluster : ClientSync(c, d)
ClusterSpec == InitCluster /\ [][ClusterClientSteps \/ PollSteps \/ CycleSteps]_vars

\* Test cases that assign fee recipients, for any proposer, for the
\* registered client or for a client that is not registered, while blocks are
\* produced for one registered client; the clients have reached the terminal
\* block.
FeeSteps ==
  \/ \E a \in Actors, fee \in Fees, ec \in Clients \cup {NilClient} :
        CallSetNextFeeRecipient(a, fee, ec)
  \/ \E a \in Actors : AcquireCheckpoint(a)
  \/ \E a \in Actors : setNextFeeRecipient(a)
  \/ \E a \in Actors : SendTransaction(a)
InitFee == InitWith(<<OneClient>>, [c \in Clients |-> TerminalHash])
FeeSpec == InitFee /\ [][FeeSteps \/ PollSteps \/ CycleSteps]_vars

\* The detector polling a registered cluster.  The timer fires, the RPC
\* calls return, and rand.Intn is fair: an index that can be drawn again and
\* again is drawn eventually.
PickIndex(k) == checkTTDPick /\ ttd'.idx = k
PollSpec ==
  /\ InitPoll
  /\ [][PollSteps]_vars
  /\ WF_vars(checkTTDTick)
  /\ WF_vars(checkTTDIndex)
  /\ WF_vars(checkTTDQuery)
  /\ \A k \in Cluster : SF_vars(PickIndex(k))

\* Block production for a registered cluster of which one client has reached
\* the terminal block and its peers stay behind.  rand.Intn is fair: an index
\* that can be drawn again and again in the selection loop is drawn eventually.
\* An RPC call of the loop that has been made returns.
SelectIndex(i, k) ==
  SelectProposer(i) /\ k \in Positions(EngineClients) /\ NextBlockProducer' = EngineClients[k]
SelectSpec ==
  /\ InitPoll
  /\ [][PollSteps \/ CycleSteps]_vars
  /\ \A i \in Invs, k \in Cluster : SF_vars(SelectIndex(i, k))
  /\ \A i \in Invs : WF_vars(SelectBlockNumber(i) \/ SelectHeader(i))

\* The draw from an empty registry.
SelectPanic(i) == SelectProposer(i) /\ Len(EngineClients) = 0

\* One client is registered before the first checkTTD; the clients have
\* reached the terminal block.
InitRegister == InitWith(<<SecondaryClient>>, [c \in Clients |-> TerminalHash])

\* Block production with registry calls under fair scheduling: a timer that
\* is pending fires, a callback that can take its next step takes it, a
\* registry call that finds EngineClientsLock unlocked again and again gets
\* it (sync.Mutex serves a starving waiter first), and rand.Intn is fair: an
\* index that can be drawn again and again in the selection loop is drawn
\* eventually.  An RPC call returns; none is bound to fail.
RegisterSpec ==
  /\ InitRegister
  /\ [][NextData]_vars
  /\ WF_vars(PollSteps \/ checkTTDReschedule)
  /\ \A i \in Invs : WF_vars(minePOSBlockStart(i) \/ LockRegistry(i) \/ CheckStop(i)
                               \/ SelectBlockNumber(i) \/ SelectHeader(i)
                               \/ PayloadAttributesStep(i) \/ BuildStep(i)
                               \/ GetPayloadStep(i) \/ ExecuteStep(i)
                               \/ HeadStep(i) \/ HeadBroadcast(i)
                               \/ SafeStep(i) \/ SafeBroadcast(i)
                               \/ FinalizedStep(i) \/ FinalizedBroadcast(i)
                               \/ ScanStep(i) \/ CheckStopEnd(i)
                               \/ FinishCycle(i) \/ ReturnAfterUnlockAll(i))
  /\ \A i \in Invs, g \in Gates : WF_vars(OpenCheckpoint(i, g) \/ CloseCheckpoint(i, g)
                                            \/ unlockAll(i, g))
  /\ \A i \in Invs : WF_vars(SelectPanic(i))
  /\ \A i \in Invs, k \in 1..MaxRegistry : SF_vars(SelectIndex(i, k))
  /\ SF_vars(AddEngineClient)
  /\ SF_vars(RemoveEngineClient)

\* ------------------------------------------------------------ vocabulary
\* Invocation i of minePOSBlock has started and has not returned.
Active(i) == pc[i] \notin {"idle", "halted", Fatalf}
\* Invocation i is between acquiring and releasing EngineClientsLock.
InCycle(i) == Active(i) /\ pc[i] # "lock_registry"
\* unlockAll has been called (stop or fatal), or the process has been aborted.
Shutdown == crashed \/ \E i \in Invs : Exiting(i, "halted") \/ Exiting(i, Fatalf)
Pointers == {LatestForkchoice.HeadBlockHash, LatestForkchoice.SafeBlockHash,
             LatestForkchoice.FinalizedBlockHash}
\* Invocation i is blocked in Lock on gate g, which test case a holds.
BlockedOn(i, g, a) == pc[i] = LockPc[g] /\ mutex[g] = a /\ waiter[a] = [st |-> "holding", gate |-> g]
CyclesDone == Cardinality(DOMAIN RandomHistory)

\* ------------------------------------------------------------------ C1
\* C1: at most one production cycle runs at a time: never two invocations
\* of minePOSBlock between Lock and Unlock of EngineClientsLock, never more
\* than one invocation scheduled or running, and after the first one the
\* next is scheduled only by the invocation that is finishing.
C1_Scheduled == minePOSBlockTimer + Cardinality({i \in Invs : Active(i)})
C1_OneCycleAtATime ==
  /\ [](Cardinality({i \in Invs : InCycle(i)}) <= 1 /\ C1_Scheduled <= 1)
  /\ [][minePOSBlockTimer' > minePOSBlockTimer =>
          \/ ttd.pc \in {"range", "call"} /\ C1_Scheduled = 0
          \/ \E i \in Invs : pc[i] = LockPc[NewFinalizedBlockForkchoiceMutex] /\ pc'[i] = "idle"]_vars
\* A second cycle is running while a registry call and a test case wait.
C1_Witness ==
  /\ CyclesDone >= 1
  /\ \E i \in Invs : InCycle(i) /\ pc[i] = LockPc[PayloadBuildMutex]
  /\ regCall.op # "none"
  /\ \E a \in Actors : waiter[a].st = "holding"

\* ------------------------------------------------------------------ C2
\* C2: no state is reachable in which the production cycle is blocked
\* re-acquiring a gate held by a test case that is itself blocked on the
\* registry lock held by that cycle.
C2_NoRendezvousDeadlock ==
  ~ \E i \in Invs, g \in Gates, a \in Actors :
       /\ BlockedOn(i, g, a)
       /\ regCall.op # "none" /\ regCall.by = a
       /\ EngineClientsLock = InvHolder(i)

\* ------------------------------------------------------------------ C3
\* C3: a test case that is blocked in Lock on a gate when the cycle opens
\* it acquires the gate before the cycle re-acquires it: when the cycle's
\* Lock returns, no test case that was blocked at the Unlock is still blocked.
C3_WaiterNeverMisses ==
  [][\A i \in Invs, g \in Gates :
        (pc[i] = LockPc[g] /\ pc'[i] # LockPc[g] /\ mutex'[g] = Orch) => window = {}]_vars

\* ------------------------------------------------------------------ C4
\* C4: before shutdown at most one gate is not held by the orchestrator, at
\* most one test case holds a gate, and while a test case holds gate g the
\* cycle stays inside the window of g (blocked in its Lock, or at the stop
\* check that follows the last Unlock).
C4_InWindow(i, g) ==
  \/ pc[i] = LockPc[g]
  \/ g = NewFinalizedBlockForkchoiceMutex /\ pc[i] = "check_stop_end"
C4_OneWindow ==
  ~Shutdown =>
    /\ Cardinality({g \in Gates : mutex[g] # Orch}) <= 1
    /\ Cardinality({a \in Actors : waiter[a].st = "holding"}) <= 1
    /\ \A a \in Actors : waiter[a].st = "holding" =>
          /\ mutex[waiter[a].gate] = a
          /\ \E i \in Invs : C4_InWindow(i, waiter[a].gate)
          /\ \A i \in Invs : Active(i) => C4_InWindow(i, waiter[a].gate)
\* One test case holds the open gate while another is blocked on a later one.
C4_Witness ==
  /\ ~Shutdown
  /\ \E a, b \in Actors :
       /\ waiter[a] = [st |-> "holding", gate |-> NewExecutePayloadMutex]
       /\ waiter[b] = [st |-> "waiting", gate |-> NewHeadBlockForkchoiceMutex]
  /\ CyclesDone >= 1

\* ------------------------------------------------------------------ C5
\* C5: after every completed cycle head, safe and finalized all equal the
\* block hash of that cycle's LatestExecutedPayload, and inside a cycle safe
\* changes only to the value head already has and finalized only to the
\* value head and safe already have.
C5_Updating(i) ==
  pc[i] \in {UnlockPc[NewExecutePayloadMutex], LockPc[NewExecutePayloadMutex],
             AfterPc[NewExecutePayloadMutex], HeadCallsPc,
             UnlockPc[NewHeadBlockForkchoiceMutex], LockPc[NewHeadBlockForkchoiceMutex],
             AfterPc[NewHeadBlockForkchoiceMutex], SafeCallsPc,
             UnlockPc[NewSafeBlockForkchoiceMutex], LockPc[NewSafeBlockForkchoiceMutex],
             AfterPc[NewSafeBlockForkchoiceMutex]}
C5_PointersFollowPayload ==
  /\ []((LatestExecutedPayload # NoPayload /\ \A i \in Invs : ~C5_Updating(i))
          => Pointers = {LatestExecutedPayload.BlockHash})
  /\ [][(\E i \in Invs : InCycle(i)) =>
          /\ LatestForkchoice'.SafeBlockHash # LatestForkchoice.SafeBlockHash =>
               /\ LatestForkchoice'.SafeBlockHash = LatestForkchoice.HeadBlockHash
               /\ LatestForkchoice'.HeadBlockHash = LatestForkchoice.HeadBlockHash
               /\ LatestForkchoice'.FinalizedBlockHash = LatestForkchoice.FinalizedBlockHash
          /\ LatestForkchoice'.FinalizedBlockHash # LatestForkchoice.FinalizedBlockHash =>
               /\ LatestForkchoice'.FinalizedBlockHash = LatestForkchoice.SafeBlockHash
               /\ LatestForkchoice' = [LatestForkchoice EXCEPT
                                         !.FinalizedBlockHash = LatestForkchoice.HeadBlockHash]
          /\ LatestForkchoice'.HeadBlockHash # LatestForkchoice.HeadBlockHash =>
               /\ LatestForkchoice'.SafeBlockHash = LatestForkchoice.SafeBlockHash
               /\ LatestForkchoice'.FinalizedBlockHash = LatestForkchoice.FinalizedBlockHash]_vars
\* The second cycle is complete: the pointers left the first payload.
C5_Witness ==
  /\ CyclesDone = 2
  /\ \E i \in Invs : pc[i] = "check_stop_end"
  /\ Pointers = {LatestExecutedPayload.BlockHash}
  /\ LatestExecutedPayload.Number \in DOMAIN ExecutedPayloadHistory
  /\ \E n \in DOMAIN ExecutedPayloadHistory :
        ExecutedPayloadHistory[n].BlockHash # LatestExecutedPayload.BlockHash

\* ------------------------------------------------------------------ C6
\* C6 (as stated): every pointer that is set is the hash of a payload that
\* getPayload returned and broadcastExecutePayload sent.
C6_PointersOnlyFromPayloads ==
  \A h \in Pointers : h # ZeroHash => h \in broadcastLog
\* C6 (amended): every pointer that is set is the hash of the head header
\* checkTTD fetched at the transition, or the hash of a payload that
\* getPayload returned and broadcastExecutePayload sent.
C6_PointersFromTerminalOrPayloads ==
  \A h \in Pointers : h # ZeroHash =>
     \/ h = terminalBlock /\ TTDReached
     \/ h \in broadcastLog /\ \E n \in DOMAIN ExecutedPayloadHistory :
                                 ExecutedPayloadHistory[n].BlockHash = h
\* Head already points to the new payload, finalized still to the terminal block.
C6_Witness ==
  /\ LatestForkchoice.HeadBlockHash \in broadcastLog
  /\ LatestForkchoice.FinalizedBlockHash = terminalBlock
  /\ terminalBlock # ZeroHash

\* ------------------------------------------------------------------ C7
\* C7: the selection loop is left only when the hash test passes: the
\* height the proposer reported to BlockNumber is the last-known finalized
\* height (the number of the finalized header while LatestFinalizedNumber is
\* still nil) and the hash it reports at that height is the hash of the
\* finalized header.
C7_FinalizedHeight ==
  IF LatestFinalizedNumber # NilNumber THEN LatestFinalizedNumber
  ELSE LatestFinalizedHeader.Number
C7_ProposerMatchesFinalized ==
  [][\A i \in Invs :
       (pc[i] \in SelectPcs /\ pc'[i] \notin SelectPcs /\ ~Exiting(i, Fatalf)') =>
          /\ pc[i] = "select_header"
          /\ pc'[i] = UnlockPc[PayloadBuildMutex]
          /\ NextBlockProducer' = NextBlockProducer
          /\ lastBlockNumber[i] = C7_FinalizedHeight
          /\ HeaderHashAt(NextBlockProducer, lastBlockNumber[i]) = LatestFinalizedHeader.Hash]_vars
\* A proposer was selected in the first cycle although another registered
\* client is not at the finalized block.
C7_Witness ==
  /\ LatestFinalizedNumber = NilNumber
  /\ \E i \in Invs : pc[i] = UnlockPc[PayloadBuildMutex]
                      /\ lastBlockNumber[i] = LatestFinalizedHeader.Number
  /\ chainHead[NextBlockProducer] = LatestFinalizedHeader.Hash
  /\ \E k \in Positions(EngineClients) :
        chainHead[EngineClients[k]] # LatestFinalizedHeader.Hash

\* ------------------------------------------------------------------ C8
\* C8: the registry does not change while an invocation of minePOSBlock
\* holds EngineClientsLock, a change happens only when no cycle is inside,
\* and the pointers of a completed cycle are the hash of the payload its
\* proposer built, whatever registry call was issued meanwhile.
C8_Completed(i) ==
  pc[i] \in {UnlockPc[NewFinalizedBlockForkchoiceMutex], "check_stop_end",
             LockPc[NewFinalizedBlockForkchoiceMutex]}
C8_RegistrySerialized ==
  /\ [][(\E i \in Invs : InCycle(i)) => EngineClients' = EngineClients]_vars
  /\ [](\A i \in Invs : C8_Completed(i) =>
          /\ Pointers = {LatestPayloadBuilt.BlockHash}
          /\ BuilderOf(LatestPayloadBuilt.BlockHash) = NextBlockProducer)
\* The cycle is complete, the call that unregisters its proposer is still
\* waiting, and the proposer is still registered.
C8_Witness ==
  /\ \E i \in Invs : C8_Completed(i)
  /\ regCall.op = "remove" /\ regCall.ec = NextBlockProducer
  /\ \E k \in Positions(EngineClients) : EngineClients[k] = NextBlockProducer
  /\ Pointers = {LatestPayloadBuilt.BlockHash}

\* ------------------------------------------------------------------ C9
\* C9: once the stop flag is raised the orchestrator reaches the halted
\* state with all six gates released: a cycle that finds the flag raised at
\* its closing stop check halts, the process is not aborted there.
C9_StopHalts ==
  \A i \in Invs :
     (BlockProductionMustStop /\ pc[i] \in {"check_stop_end", HaltPc[NewFinalizedBlockForkchoiceMutex]})
        => ~crashed

\* ----------------------------------------------------------------- C10
\* C10 (as stated): raising the stop flag while the cycle is blocked on a
\* gate a test case holds releases the gates at once, the test case still
\* holding its gate.
C10_StopReleasesGates ==
  [][\A i \in Invs, g \in Gates, a \in Actors :
       (BlockedOn(i, g, a) /\ ~BlockProductionMustStop /\ BlockProductionMustStop')
          => \A h \in Gates \ {g} : mutex'[h] = Free]_vars
\* C10 (amended): raising the stop flag releases no gate; while the cycle is
\* blocked on a gate a test case holds, the other five gates stay locked by
\* the orchestrator, with or without the stop flag, until the test case
\* releases its gate.
C10_StopReleasesNothing ==
  /\ [][(~BlockProductionMustStop /\ BlockProductionMustStop') => mutex' = mutex]_vars
  /\ [](\A i \in Invs, g \in Gates, a \in Actors :
          BlockedOn(i, g, a) => \A h \in Gates \ {g} : mutex[h] = Orch)
\* The flag is raised, the cycle is blocked, the test case keeps its gate.
C10_Witness ==
  /\ BlockProductionMustStop
  /\ \E i \in Invs, a \in Actors : BlockedOn(i, NewGetPayloadMutex, a)

\* ----------------------------------------------------------------- C11
AllGatesClosed == \A g \in Gates : mutex[g] = Orch
AllGatesReleased == \A g \in Gates : mutex[g] # Orch
\* C11 (as stated): the six gates are held by the orchestrator when
\* NewCLMocker returns, and they are all released only after the stop flag
\* has been raised.
C11_ReleasedOnlyAfterStop ==
  /\ AllGatesClosed
  /\ [](AllGatesReleased => BlockProductionMustStop)
\* C11 (amended): the six gates are held by the orchestrator when
\* NewCLMocker returns, and they are all released only after unlockAll has
\* run: in a cycle that found the stop flag raised, or in a cycle that ended
\* in Fatalf, with or without the stop flag.
C11_ReleasedOnlyByUnlockAll ==
  /\ AllGatesClosed
  /\ [](AllGatesReleased =>
          \/ \E i \in Invs : Exiting(i, Fatalf)
          \/ BlockProductionMustStop /\ \E i \in Invs : Exiting(i, "halted"))
  /\ []((\E i \in Invs : Exiting(i, "halted")) => BlockProductionMustStop)
\* A cycle ended in Fatalf and released the six gates; no stop was requested.
C11_Witness ==
  /\ AllGatesReleased
  /\ ~BlockProductionMustStop
  /\ \E i \in Invs : pc[i] = Fatalf
  /\ \E a \in Actors : waiter[a].st = "waiting"

\* ----------------------------------------------------------------- C12
\* C12: TTDReached goes from false to true once and never back, and once it
\* is true checkTTD is never started again: no checkTTD timer is pending and
\* the callback that set it ends (returns or Fatalf) without a successor.
C12_TerminalReachedOnce ==
  /\ [][TTDReached => TTDReached']_vars
  /\ [](TTDReached => checkTTDTimer = 0)
  /\ [][TTDReached => ~(ttd.pc = "idle" /\ ttd'.pc # "idle")]_vars
  /\ [][(~TTDReached /\ TTDReached') => ttd.pc = "query"]_vars
\* The transition is behind, a cycle has completed and the registry has been
\* emptied since.
C12_Witness ==
  /\ TTDReached
  /\ ttd = TTDIdle
  /\ CyclesDone >= 1
  /\ EngineClients = <<>>

\* ----------------------------------------------------------------- C13
\* C13: FirstPoSBlockNumber is nil until a cycle reaches its bookkeeping;
\* the first cycle that does sets it to the number of the finalized header
\* it started from (the terminal block) plus one, and no later step changes it.
C13_FirstPoSBlockNumberSetOnce ==
  /\ [](FirstPoSBlockNumber = NilNumber <=> CyclesDone = 0)
  /\ [][FirstPoSBlockNumber # NilNumber => FirstPoSBlockNumber' = FirstPoSBlockNumber]_vars
  /\ [][(FirstPoSBlockNumber = NilNumber /\ FirstPoSBlockNumber' # NilNumber) =>
          /\ \E i \in Invs : pc[i] = FinalizedCallsPc
          /\ LatestFinalizedHeader.Hash = terminalBlock
          /\ FirstPoSBlockNumber' = LatestFinalizedHeader.Number + 1]_vars
\* The second cycle has done its bookkeeping: the number is still the one
\* the first cycle wrote.
C13_Witness ==
  /\ CyclesDone = 2
  /\ FirstPoSBlockNumber = NumOf(terminalBlock) + 1
  /\ LatestFinalizedNumber > FirstPoSBlockNumber

\* ----------------------------------------------------------------- C14
\* C14: a block number that has a value in RandomHistory or in
\* ExecutedPayloadHistory has the same value in every later state, and a
\* cycle that writes a history writes a block number it did not hold.
C14_HistoryImmutable ==
  /\ [][\A n \in DOMAIN RandomHistory :
          n \in DOMAIN RandomHistory' /\ RandomHistory'[n] = RandomHistory[n]]_vars
  /\ [][\A n \in DOMAIN ExecutedPayloadHistory :
          n \in DOMAIN ExecutedPayloadHistory' /\
          ExecutedPayloadHistory'[n] = ExecutedPayloadHistory[n]]_vars
  /\ [][(\E i \in Invs : pc[i] = AfterPc[NewGetPayloadMutex] /\ pc'[i] # pc[i]) =>
          DOMAIN ExecutedPayloadHistory' # DOMAIN ExecutedPayloadHistory]_vars
  /\ [][(\E i \in Invs : pc[i] = FinalizedCallsPc /\ pc'[i] # pc[i]) =>
          DOMAIN RandomHistory' # DOMAIN RandomHistory]_vars
\* Two cycles have written both histories, with different values.
C14_Witness ==
  /\ Cardinality(DOMAIN RandomHistory) = 2
  /\ Cardinality(DOMAIN ExecutedPayloadHistory) = 2
  /\ \E n, m \in DOMAIN RandomHistory : RandomHistory[n] # RandomHistory[m]
  /\ DOMAIN RandomHistory = DOMAIN ExecutedPayloadHistory

\* ----------------------------------------------------------------- C15
\* What checkTTD can touch besides its own timer and position.
C15_MockerState ==
  <<EngineClients, EngineClientsLock, BlockProductionMustStop, mockerVars, TTDReached,
    mutex, minePOSBlockTimer, pc, crashed>>
\* C15: a checkTTD that starts with an empty registry takes the branch that
\* only reschedules: no transition, no change of the mocker's state, no
\* Fatalf and no abort, and exactly one new checkTTD timer.
C15_EmptyRegistryReschedules ==
  /\ [][(ttd.pc = "idle" /\ ttd'.pc # "idle" /\ Len(EngineClients) = 0) =>
          /\ ttd'.pc = "empty"
          /\ checkTTDTimer' = checkTTDTimer - 1
          /\ C15_MockerState' = C15_MockerState]_vars
  /\ [][(ttd.pc = "empty" /\ ttd' # ttd) =>
          /\ ttd' = TTDIdle
          /\ checkTTDTimer' = checkTTDTimer + 1
          /\ checkTTDTimer' = 1
          /\ C15_MockerState' = C15_MockerState]_vars
  /\ [](ttd.pc = "empty" => ~TTDReached /\ minePOSBlockTimer = 0)
\* checkTTD found the registry empty after a client had been registered and
\* unregistered again; it has not rescheduled yet.
C15_Witness ==
  /\ ttd.pc = "empty"
  /\ checkTTDTimer = 0
  /\ EngineClients = <<>>
  /\ \E c \in Clients : chainHead[c] = TerminalHash
  /\ regCall.op = "add"

\* ----------------------------------------------------------------- C16
\* C16: with the cluster registered, one client at the terminal total
\* difficulty and its peers below it, the repeated checkTTD callbacks
\* eventually sample the client that has reached it and set TTDReached
\* (provided no totalDifficulty query fails, which ends checkTTD in Fatalf),
\* whatever the registry order and the order of the draws; TTDReached is
\* set by a sample of that client only, and once.
C16_Below(c) == ~ReachedTTD(TotalDifficulty(chainHead[c]))
C16_EventuallyReached ==
  /\ <>(TTDReached \/ ttd.pc = Fatalf)
  /\ [][(~TTDReached /\ TTDReached') =>
          /\ ~C16_Below(EngineClients[ttd.idx])
          /\ ttd'.ec = EngineClients[ttd.idx]]_vars
  /\ [][TTDReached => (TTDReached' /\ ttd'.pc \notin {"index", "query"})]_vars
\* The client that has reached the terminal block is last in the registry
\* and has just been sampled; both peers are below.
C16_Witness ==
  /\ TTDReached
  /\ ttd.pc = "header"
  /\ ttd.idx = Len(EngineClients)
  /\ Cardinality({k \in Positions(EngineClients) : C16_Below(EngineClients[k])}) = NumPeers
  /\ Len(EngineClients) = NumPeers + 1

\* ----------------------------------------------------------------- C17
\* The client at position k of the registry is a follower of this cycle and
\* answered status to its executePayload.
C17_Answered(k, status) ==
  /\ k \in DOMAIN executeOutcomes
  /\ EngineClients[k] # NextBlockProducer
  /\ executeOutcomes[k].ExecutePayloadResponse = status
\* The proposer has accepted the payload of this cycle and so has one
\* follower, another follower has rejected it.
C17_OneRejects ==
  /\ \E p \in DOMAIN executeOutcomes :
        /\ EngineClients[p] = NextBlockProducer
        /\ executeOutcomes[p].ExecutePayloadResponse = "VALID"
  /\ \E j, k \in Positions(EngineClients) :
        C17_Answered(j, "INVALID") /\ C17_Answered(k, "VALID")
\* C17: whatever the clients answer to executePayload, the cycle goes on
\* and LatestExecutedPayload is the payload built; in a cycle in which one
\* follower answered INVALID, the other and the proposer VALID, the scan
\* ends in Fatalf only when the header query failed on every follower that
\* answered VALID, and the header it stores is the view of an accepting
\* follower: the header a follower that answered VALID has at that height.
C17_RejectingFollowerSkipped ==
  /\ [][\A i \in Invs :
          (pc[i] = AfterPc[NewGetPayloadMutex] /\ pc'[i] # pc[i]) =>
             /\ pc'[i] = UnlockPc[NewExecutePayloadMutex]
             /\ LatestExecutedPayload' = LatestPayloadBuilt]_vars
  /\ [][\A i \in Invs :
          (pc[i] = ScanPc /\ C17_OneRejects /\ Exiting(i, Fatalf)') =>
             \A k \in Positions(EngineClients) :
                C17_Answered(k, "VALID") => k \in headerErrors']_vars
  /\ [][\A i \in Invs :
          (pc[i] = ScanPc /\ C17_OneRejects
             /\ LatestFinalizedHeader' # LatestFinalizedHeader) =>
             \E k \in Positions(EngineClients) :
                /\ C17_Answered(k, "VALID")
                /\ LatestFinalizedHeader' =
                      HeaderOf(HeaderHashAt(EngineClients[k], LatestFinalizedNumber))]_vars

\* ----------------------------------------------------------------- C18
\* The HeaderByNumber call of this step of the scan, to the client at
\* position scanIndex, returns a header.
C18_Returns ==
  /\ scanIndex \in Positions(EngineClients)
  /\ HeaderHashAt(EngineClients[scanIndex], LatestFinalizedNumber) # ZeroHash
  /\ scanIndex \notin headerErrors'
\* C18: the scan asks the clients in registry order, beginning at the first
\* with LatestFinalizedHeader nil; the first client that returns a header
\* ends it: the cycle goes on and LatestFinalizedHeader is that header; when
\* no registered client returns a header at the new finalized height the
\* cycle ends in Fatalf with LatestFinalizedHeader nil, and after a Fatalf no
\* minePOSBlock is scheduled or running.
C18_ScanFirstOrFatal ==
  /\ [][\A i \in Invs :
          (pc[i] = FinalizedCallsPc /\ pc'[i] # pc[i]) =>
             /\ pc'[i] = ScanPc
             /\ scanIndex' = 1
             /\ LatestFinalizedHeader' = NilHeader]_vars
  /\ [][\A i \in Invs :
          (pc[i] = ScanPc /\ scanIndex' # scanIndex) =>
             IF C18_Returns
             THEN /\ pc'[i] = UnlockPc[NewFinalizedBlockForkchoiceMutex]
                  /\ LatestFinalizedHeader' =
                        HeaderOf(HeaderHashAt(EngineClients[scanIndex], LatestFinalizedNumber))
             ELSE IF scanIndex < Len(EngineClients)
             THEN /\ pc'[i] = ScanPc
                  /\ scanIndex' = scanIndex + 1
                  /\ LatestFinalizedHeader' = NilHeader
             ELSE /\ Exiting(i, Fatalf)'
                  /\ LatestFinalizedHeader' = NilHeader
                  /\ minePOSBlockTimer' = 0]_vars
  /\ [](\A i \in Invs : Exiting(i, Fatalf) =>
          (minePOSBlockTimer = 0 /\ \A j \in Invs \ {i} : ~Active(j)))
\* The call to the first client failed although it has a block at that
\* height; the second client, which has another block there, supplied the
\* header.
C18_Witness ==
  /\ \E i \in Invs : pc[i] = UnlockPc[NewFinalizedBlockForkchoiceMutex]
  /\ Len(EngineClients) = 2
  /\ headerErrors = {1}
  /\ LatestFinalizedHeader = HeaderOf(HeaderHashAt(EngineClients[2], LatestFinalizedNumber))
  /\ HeaderHashAt(EngineClients[1], LatestFinalizedNumber) \notin {ZeroHash, LatestFinalizedHeader.Hash}

\* ----------------------------------------------------------------- C19
\* An outcome holds a response or an error, not both and not neither.
C19_OneOf(response, error) == (response = "nil") # (error = "nil")
\* The positions of the outcome list that this step wrote (zero: an outcome
\* that has not been written).
C19_Written(zero) ==
  {k \in DOMAIN responses' :
     responses'[k] # zero /\ (k \in DOMAIN responses => responses[k] = zero)}
\* checkTTD is aborted in this step: no registry call, test case or cycle
\* has moved.
C19_Aborted ==
  crashed' /\ ~crashed /\ regCall' = regCall /\ waiter' = waiter /\ pc' = pc
\* The step in which the initial broadcast of checkTTD ends: it returns and
\* checkTTD goes on, or the process is aborted in it.
C19_InitialBroadcast == ttd.pc \in {"range", "call"} /\ (ttd'.pc = "idle" \/ C19_Aborted)
\* C19: a broadcast, in a cycle or in checkTTD, calls every registered
\* client once and its outcome list has one entry per registry position;
\* the entry at position k holds what the client at position k answered, a
\* response or an error and never both or neither, also at the positions
\* after one whose call failed; a client that answered VALID to
\* executePayload holds the payload from then on.
C19_OneOutcomePerClient ==
  /\ [][\A i \in Invs : pc[i] = AfterPc[NewGetPayloadMutex] =>
          /\ \A k \in C19_Written(ZeroExecuteOutcome) :
                LET o == responses'[k] IN
                /\ C19_Written(ZeroExecuteOutcome) = {k}
                /\ k \in Positions(EngineClients)
                /\ C19_OneOf(o.ExecutePayloadResponse, o.Error)
                /\ o.Error = "nil" =>
                      o.ExecutePayloadResponse \in
                         ExecuteAnswers(EngineClients[k], LatestPayloadBuilt) \ {"error"}
                /\ o.ExecutePayloadResponse = "VALID" =>
                      clientValid'[EngineClients[k]] = LatestPayloadBuilt.BlockHash
          /\ pc'[i] # pc[i] =>
                /\ DOMAIN responses' = Positions(EngineClients)
                /\ \A k \in Positions(EngineClients) :
                      C19_OneOf(responses'[k].ExecutePayloadResponse, responses'[k].Error)]_vars
  /\ [][\A i \in Invs :
          pc[i] \in {HeadCallsPc, SafeCallsPc, FinalizedCallsPc} =>
          /\ \A k \in C19_Written(ZeroOutcome) :
                LET o == responses'[k] IN
                /\ C19_Written(ZeroOutcome) = {k}
                /\ k \in Positions(EngineClients)
                /\ C19_OneOf(o.ForkchoiceResponse, o.Error)
                /\ o.Error = "nil" =>
                      o.ForkchoiceResponse =
                         ForkchoiceStatus(EngineClients[k], LatestForkchoice'.HeadBlockHash)
          /\ pc'[i] \notin {pc[i], FatalPc[PayloadBuildMutex]} =>
                /\ DOMAIN responses' = Positions(EngineClients)
                /\ \A k \in Positions(EngineClients) :
                      C19_OneOf(responses'[k].ForkchoiceResponse, responses'[k].Error)]_vars
  /\ [][(ttd.pc = "call" /\ (responses' # responses \/ C19_Aborted)) =>
          /\ ~C19_Aborted
          /\ C19_Written(ZeroOutcome) = {ttd.k}
          /\ ttd.k \in Positions(EngineClients)
          /\ ttd.cur = EngineClients[ttd.k]
          /\ ttd.cur \notin ttd.sent
          /\ LET o == responses'[ttd.k] IN
             /\ C19_OneOf(o.ForkchoiceResponse, o.Error)
             /\ o.Error = "nil" =>
                   o.ForkchoiceResponse =
                      ForkchoiceStatus(ttd.cur, LatestForkchoice.HeadBlockHash)]_vars
  /\ [][C19_InitialBroadcast =>
          /\ ~C19_Aborted
          /\ DOMAIN responses' = Positions(EngineClients)
          /\ \A k \in Positions(EngineClients) :
                C19_OneOf(responses'[k].ForkchoiceResponse, responses'[k].Error)]_vars
\* executePayload failed on the first client; the second one was called all
\* the same, answered VALID and holds the payload.
C19_Witness ==
  /\ \E i \in Invs : pc[i] = UnlockPc[NewExecutePayloadMutex]
  /\ Len(EngineClients) = NumPeers + 1
  /\ DOMAIN responses = Positions(EngineClients)
  /\ responses[1].Error = "error"
  /\ responses[2].ExecutePayloadResponse = "VALID"
  /\ clientValid[EngineClients[2]] = LatestPayloadBuilt.BlockHash

\* ----------------------------------------------------------------- C20
\* C20: setNextFeeRecipient(fee, target) writes NextFeeRecipient only while
\* the producer of the cycle is target, and every fee a call wrote for its
\* target since PayloadBuildMutex was unlocked is the SuggestedFeeRecipient
\* of the payload attributes the producer is then asked to build with, also
\* when several calls are in progress at once.
C20_TargetFeeIsBuilt ==
  /\ [][NextFeeRecipient' # NextFeeRecipient =>
          \E a \in Actors :
             /\ feeCall[a].active /\ ~feeCall[a].sending
             /\ ~feeCall'[a].active \/ feeCall'[a].sending \/ crashed'
             /\ NextFeeRecipient' = feeCall[a].fee
             /\ feeCall[a].ec # NilClient => NextBlockProducer = feeCall[a].ec]_vars
  /\ [][\A i \in Invs :
          (pc[i] = AfterPc[PayloadBuildMutex] /\ pc'[i] # pc[i]) =>
             \A fee \in assigned : payloadAttributes'.SuggestedFeeRecipient = fee]_vars

\* ----------------------------------------------------------------- C21
\* How often handle c is registered.
Occurrences(reg, c) == Cardinality({k \in Positions(reg) : reg[k] = c})
\* C21: RemoveEngineClient(c) on a registry that does not hold c leaves the
\* registry as it is; on a registry that holds c, c is not registered after
\* the call returns and every other handle is registered as often as before.
C21_UnregisterRemoves ==
  [][(regCall.op = "remove" /\ regCall'.op = "none") =>
       LET c == regCall.ec IN
       IF Occurrences(EngineClients, c) = 0
       THEN EngineClients' = EngineClients
       ELSE /\ Occurrences(EngineClients', c) = 0
            /\ \A d \in Clients \ {c} :
                  Occurrences(EngineClients', d) = Occurrences(EngineClients, d)]_vars

\* ----------------------------------------------------------------- C22
\* The hash the pointers held when the cycle began: the block the payload of
\* this cycle follows, the terminal block in the first cycle.
C22_Previous ==
  LET n == LatestPayloadBuilt.Number - 1 IN
  IF n \in DOMAIN ExecutedPayloadHistory THEN ExecutedPayloadHistory[n].BlockHash
  ELSE terminalBlock
C22_Fields(fc) == <<fc.HeadBlockHash, fc.SafeBlockHash, fc.FinalizedBlockHash>>
\* C22: inside a cycle a step changes at most one of head, safe and
\* finalized; while the head checkpoint is open head is the hash of the new
\* payload and safe and finalized are the previous hash; while the safe
\* checkpoint is open head and safe are the new hash and finalized is the
\* previous one; while the cycle-complete checkpoint is open all three are
\* the new hash.
C22_OnePointerPerBroadcast ==
  /\ [][(\E i \in Invs : InCycle(i)) =>
          Cardinality({k \in 1..3 : C22_Fields(LatestForkchoice')[k] #
                                      C22_Fields(LatestForkchoice)[k]}) <= 1]_vars
  /\ [](\A i \in Invs :
          LET new == LatestPayloadBuilt.BlockHash IN
          /\ pc[i] = LockPc[NewHeadBlockForkchoiceMutex] =>
                C22_Fields(LatestForkchoice) = <<new, C22_Previous, C22_Previous>>
          /\ pc[i] = LockPc[NewSafeBlockForkchoiceMutex] =>
                C22_Fields(LatestForkchoice) = <<new, new, C22_Previous>>
          /\ C4_InWindow(i, NewFinalizedBlockForkchoiceMutex) =>
                C22_Fields(LatestForkchoice) = <<new, new, new>>)
\* In the second cycle a test case holds the head checkpoint: head has moved
\* to the second payload, safe and finalized are still the first payload.
C22_Witness ==
  /\ CyclesDone = 1
  /\ \E i \in Invs, a \in Actors : BlockedOn(i, NewHeadBlockForkchoiceMutex, a)
  /\ LatestForkchoice.HeadBlockHash = LatestPayloadBuilt.BlockHash
  /\ LatestForkchoice.SafeBlockHash \in broadcastLog
  /\ LatestForkchoice.SafeBlockHash # LatestForkchoice.HeadBlockHash

\* ----------------------------------------------------------------- C23
\* The cycle body of invocation i unlocks gate g.
C23_Opening(i, g) == pc[i] = UnlockPc[g] /\ opened' = Append(opened, g)
\* The build request of invocation i has been made.
C23_Requested(i) == nextRandom[i] # 0
\* The step gates 2..6 are named for has finished in invocation i.
C23_StepDone(i, g) ==
  LET new == LatestPayloadBuilt IN
  /\ g = NewGetPayloadMutex => C23_Requested(i) /\ new.Random = nextRandom[i]
  /\ g = NewExecutePayloadMutex =>
        /\ LatestExecutedPayload = new /\ new.BlockHash \in broadcastLog
        /\ new.Number \in DOMAIN ExecutedPayloadHistory
  /\ g = NewHeadBlockForkchoiceMutex => LatestForkchoice.HeadBlockHash = new.BlockHash
  /\ g = NewSafeBlockForkchoiceMutex => LatestForkchoice.SafeBlockHash = new.BlockHash
  /\ g = NewFinalizedBlockForkchoiceMutex =>
        /\ LatestForkchoice.FinalizedBlockHash = new.BlockHash
        /\ new.Number \in DOMAIN RandomHistory
\* The gates are unlocked once each, in the order of their numbers.
C23_InOrder ==
  /\ [](\A k \in 1..Len(opened) : opened[k] = k)
  /\ [](\A i \in Invs : C8_Completed(i) /\ pc[i] # UnlockPc[NewFinalizedBlockForkchoiceMutex]
            => Len(opened) = NewFinalizedBlockForkchoiceMutex)
\* C23 (as stated): the six gates are unlocked once each per cycle in the
\* order of their numbers, each after the step it is named for: the first
\* after the build request has been made, the others after the payload was
\* retrieved, executed, made head, made safe, made finalized.
C23_OpenedAfterNamedStep ==
  /\ C23_InOrder
  /\ [][\A i \in Invs, g \in Gates : C23_Opening(i, g) =>
          /\ C23_StepDone(i, g)
          /\ g = PayloadBuildMutex => C23_Requested(i)]_vars
\* C23 (amended): the six gates are unlocked once each per cycle in the
\* order of their numbers; the first is unlocked when the proposer has been
\* selected and before the build request is made, the others after the
\* payload was retrieved, executed, made head, made safe, made finalized.
C23_OpenedInOrder ==
  /\ C23_InOrder
  /\ [][\A i \in Invs, g \in Gates : C23_Opening(i, g) =>
          /\ C23_StepDone(i, g)
          /\ g = PayloadBuildMutex =>
                /\ ~C23_Requested(i)
                /\ \E k \in Positions(EngineClients) : EngineClients[k] = NextBlockProducer
                /\ chainHead[NextBlockProducer] = LatestFinalizedHeader.Hash]_vars
\* In the second cycle a test case holds the first gate: the proposer is
\* selected, no build request has been made.
C23_Witness ==
  /\ CyclesDone = 1
  /\ opened = <<PayloadBuildMutex>>
  /\ \E i \in Invs, a \in Actors :
        BlockedOn(i, PayloadBuildMutex, a) /\ ~C23_Requested(i)
  /\ LatestPayloadBuilt.BlockHash = LatestFinalizedHeader.Hash

\* ----------------------------------------------------------------- C24
\* The clients that have been registered since the initial broadcast was
\* called, and the clients the broadcast has called when this step is done.
C24_Registered == {c \in ttd.was : \E k \in Positions(EngineClients) : EngineClients[k] = c}
C24_Sent == IF ttd.pc = "call" THEN ttd.sent \cup {ttd.cur} ELSE ttd.sent
\* C24: a cycle is scheduled or running only when TTDReached is true and
\* the three pointers are set; the first cycle is scheduled by the checkTTD
\* callback that set the three pointers to the head hash of the client it
\* sampled, after it has sent forkchoiceUpdated for that hash to every
\* client that has been registered since the broadcast was called;
\* whatever the clients answer, the callback that ends the broadcast
\* schedules the first cycle.
C24_InitialBroadcastFirst ==
  /\ []((minePOSBlockTimer > 0 \/ \E i \in Invs : pc[i] # "idle") =>
          /\ TTDReached
          /\ \A h \in Pointers : h # ZeroHash)
  /\ [][(ttd.pc = "header" /\ ttd'.pc = "broadcast") =>
          LET h == chainHead[ttd.ec] IN
          /\ TTDReached
          /\ LatestFinalizedHeader' = HeaderOf(h)
          /\ LatestForkchoice' = [HeadBlockHash |-> h, SafeBlockHash |-> h,
                                  FinalizedBlockHash |-> h]]_vars
  /\ [][(minePOSBlockTimer' > minePOSBlockTimer /\ CyclesDone = 0) =>
          LET h == LatestFinalizedHeader.Hash IN
          /\ ttd.pc \in {"range", "call"} /\ TTDReached
          /\ LatestForkchoice' = [HeadBlockHash |-> h, SafeBlockHash |-> h,
                                  FinalizedBlockHash |-> h]
          /\ C24_Registered \subseteq C24_Sent]_vars
  /\ [][(ttd.pc \in {"range", "call"} /\ ttd'.pc \notin {"range", "call"}) =>
          (ttd'.pc = "idle" /\ minePOSBlockTimer' = minePOSBlockTimer + 1)]_vars
\* The first cycle is scheduled although one client answered the initial
\* broadcast with an error and another with a status that is not SUCCESS.
C24_Witness ==
  /\ minePOSBlockTimer = 1
  /\ CyclesDone = 0
  /\ \E k \in DOMAIN responses : responses[k].Error = "error"
  /\ \E k \in DOMAIN responses : responses[k].ForkchoiceResponse = "SYNCING"

\* ----------------------------------------------------------------- C25
\* Client c is at the last-known finalized height and hash.
C25_Qualifies(c) ==
  /\ NumOf(chainHead[c]) = C7_FinalizedHeight
  /\ chainHead[c] = LatestFinalizedHeader.Hash
\* C25: an iteration of the selection loop that stays in the loop has drawn
\* a client that is not at the finalized height and hash; and with a fair
\* draw, a selection loop that runs while a registered client is there is
\* left eventually, towards the build request with such a client as
\* NextBlockProducer (or in Fatalf, when a height or header query failed).
C25_SelectionTerminates ==
  /\ [][\A i \in Invs :
          (pc[i] \in {"select_number", "select_header"} /\ pc'[i] = "select")
             => ~C25_Qualifies(NextBlockProducer)]_vars
  /\ \A i \in Invs :
        (pc[i] \in SelectPcs /\ \E k \in Positions(EngineClients) : C25_Qualifies(EngineClients[k]))
          ~> \/ pc[i] = UnlockPc[PayloadBuildMutex] /\ C25_Qualifies(NextBlockProducer)
             \/ Exiting(i, Fatalf)
\* In the second cycle the loop has just discarded a peer that is still on
\* the genesis block; the client that qualifies is last in the registry.
C25_Witness ==
  /\ CyclesDone = 1
  /\ \E i \in Invs : pc[i] = "select" /\ lastBlockNumber[i] = NumOf(GenesisHash)
  /\ ~C25_Qualifies(NextBlockProducer)
  /\ C25_Qualifies(EngineClients[Len(EngineClients)])

\* ----------------------------------------------------------------- C26
\* C26: a call of setNextFeeRecipient that reaches the return of a number,
\* in the first cycle or a later one, returns one, and the payload built in
\* the cycle in which the call wrote NextFeeRecipient has that number.
C26_ReturnsBuiltNumber ==
  /\ [](\A r \in returned : r.ok)
  /\ [][\A i \in Invs :
          (pc[i] = "getpayload" /\ pc'[i] = UnlockPc[NewGetPayloadMutex]) =>
             \A r \in returned : r.n = LatestPayloadBuilt'.Number]_vars

\* ----------------------------------------------------------------- C27
\* C27: RandomHistory is written under the number of the payload built in
\* that cycle with the Random of the payload attributes of its build
\* request, and every entry of RandomHistory is the Random of the payload
\* that was executed for that block number.
C27_RandomOfBlock ==
  /\ [][RandomHistory' # RandomHistory =>
          /\ DOMAIN RandomHistory' = DOMAIN RandomHistory \cup {LatestPayloadBuilt.Number}
          /\ RandomHistory'[LatestPayloadBuilt.Number] = payloadAttributes.Random]_vars
  /\ [](\A n \in DOMAIN RandomHistory :
          /\ n \in DOMAIN ExecutedPayloadHistory
          /\ ExecutedPayloadHistory[n].Number = n
          /\ ExecutedPayloadHistory[n].Random = RandomHistory[n])
\* Two cycles are complete: two blocks, each with its own random value.
C27_Witness ==
  /\ CyclesDone = 2
  /\ \E n, m \in DOMAIN RandomHistory : RandomHistory[n] # RandomHistory[m]
  /\ RandomHistory[LatestExecutedPayload.Number] = payloadAttributes.Random

\* ----------------------------------------------------------------- C28
\* Invocation i of minePOSBlock takes the step: it moves on, or the process
\* is aborted in it.
C28_CycleStep(i) ==
  /\ InCycle(i)
  /\ <<waiter, regCall, feeCall, ttd, chainHead, BlockProductionMustStop>>' =
       <<waiter, regCall, feeCall, ttd, chainHead, BlockProductionMustStop>>
  /\ pc'[i] # pc[i] \/ (crashed' /\ ~crashed)
\* C28: every Unlock the orchestrator performs, in the cycle body and in
\* unlockAll, is on a gate the orchestrator holds at that moment.
C28_UnlocksOnlyHeldGates ==
  [][\A i \in Invs, g \in Gates :
        (C28_CycleStep(i) /\ pc[i] \in {UnlockPc[g], HaltPc[g], FatalPc[g]})
           => mutex[g] = Orch]_vars

\* ----------------------------------------------------------------- C29
\* C29: when checkTTD or the selection loop is about to draw a client the
\* registry is not empty, and the index checkTTD has drawn is still a
\* position of the registry when it is used.
C29_PicksInRange ==
  /\ ttd.pc = "pick" => Len(EngineClients) > 0
  /\ ttd.pc = "index" => ttd.idx \in Positions(EngineClients)
  /\ \A i \in Invs : pc[i] = "select" => Len(EngineClients) > 0

\* ----------------------------------------------------------------- C30
\* C30: whenever TTDReached is true, LatestFinalizedHeader is set and head,
\* safe and finalized are set: to the hash of the terminal block until the
\* first payload has been broadcast.
C30_TerminalStateComplete ==
  TTDReached =>
    /\ LatestFinalizedHeader # NilHeader
    /\ \A h \in Pointers : h # ZeroHash
    /\ broadcastLog = {} => Pointers = {LatestFinalizedHeader.Hash}

\* ----------------------------------------------------------------- C31
\* C31: when a cycle completes, LatestFinalizedHeader is the header of the
\* block the cycle produced: its hash is the finalized pointer, which is the
\* block hash of LatestExecutedPayload, and its number is
\* LatestFinalizedNumber, whatever block another registered client holds at
\* that height.
C31_FinalizedHeaderIsProduced ==
  [][\A i \in Invs :
       (pc[i] = ScanPc /\ pc'[i] = UnlockPc[NewFinalizedBlockForkchoiceMutex]) =>
          /\ LatestFinalizedHeader'.Hash = LatestForkchoice'.FinalizedBlockHash
          /\ LatestFinalizedHeader'.Hash = LatestExecutedPayload'.BlockHash
          /\ LatestFinalizedHeader'.Number = LatestFinalizedNumber']_vars

\* ----------------------------------------------------------------- C32
\* C32: an AddEngineClient call for a client that is at the finalized block,
\* pending while a cycle is in the selection loop, returns eventually with
\* the client in the registry (unless the process is aborted meanwhile).
C32_RegisterReturns ==
  \A c \in Clients :
     (/\ regCall.op = "add" /\ regCall.ec = c
      /\ chainHead[c] = LatestFinalizedHeader.Hash
      /\ \E i \in Invs : pc[i] \in SelectPcs)
       ~> \/ regCall.op # "add" /\ \E k \in Positions(EngineClients) : EngineClients[k] = c
          \/ crashed

====
